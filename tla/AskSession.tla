----------------------------- MODULE AskSession -----------------------------
(***************************************************************************)
(* One question asked with memory.ask (core/research_service.py) and what  *)
(* may change around it: its device is revoked, rotated or expires, loses  *)
(* or gets a grant, a project is isolated, an item is superseded.  No lock *)
(* is held while a model answers, so every call is preceded by gates and   *)
(* the answer by a final check under locks.                                *)
(*                                                                         *)
(* An excerpt is the item version it comes from; a version that an excerpt *)
(* only names (its superseder) counts as an excerpt, as it does for the    *)
(* gates.  The answer is the set of versions its claims stand on.  Clocks  *)
(* and tokens are not counted: a step that needs time may find that too    *)
(* little is left, of the question's time or of its own, and a check of    *)
(* the question's budget may find its tokens used up.                      *)
(***************************************************************************)
EXTENDS Naturals, FiniteSets

CONSTANTS
  Version, Project,
  Home,         \* the project asked about
  ProjectsOf,   \* the projects of each version
  Setting,      \* how the server is set up to answer
  Worst,        \* the worst cost of one attempt of each job
  Cost,         \* what a provider may report an answer to have cost
  MaxSpend,     \* settings.research_max_usd
  MaxAttempts,  \* job_call_cap: attempts one question may send
  MaxTries,     \* rebuilds of one prompt
  MaxUpsets,    \* bound on the changes around the question
  MaxMissed     \* bound on the charges that are left without a row

Mode == {"claims", "cite", "prose"}
Job == {"plan", "rerank", "select", "answer", "write", "prose", "expand",
        "attribute", "refine", "check"}

ASSUME ConstantsAssumption ==
  /\ Home \in Project
  /\ ProjectsOf \in [Version -> SUBSET Project]
  /\ \A v \in Version : Home \in ProjectsOf[v]
  /\ Setting \subseteq [mode : Mode, select : BOOLEAN, rerank : BOOLEAN,
                        expand : BOOLEAN, attribute : BOOLEAN]
  /\ Worst \in [Job -> Nat \ {0}]
  /\ Cost \subseteq Nat
  /\ {MaxSpend, MaxAttempts, MaxTries, MaxUpsets, MaxMissed} \subseteq Nat

VARIABLES
  device,    \* the caller's device row
  grants,    \* the projects it may read
  apart,     \* the projects with librarian_cross_project = exclude
  current,   \* the versions that are current and active
  upsets,
  ask,       \* the request: the fields of _Run and where it is; billed and
             \* missed are history: what its attempts were charged, and what
             \* of it has no row in the ledger, so that no tally has it
  barred     \* what was denied when the open attempt began (history)

world == <<device, grants, apart, current, upsets>>
vars == <<world, ask, barred>>

Place == {"start", "call", "try", "carried", "attempt", "precheck",
          "precarried", "ready", "flight", "returned",
          "retrieve", "drill", "final", "lock", "read", "decided", "end"}

Attempting == {"precheck", "precarried", "ready", "flight"}

Outcome == {"none", "answer", "abstain", "E_AUTH", "E_FORBIDDEN",
            "E_UNAVAILABLE", "error"}

MaxCalls(s) ==
  IF s.mode = "prose"
  THEN 4 + Cardinality({x \in {"expand", "attribute", "rerank"} : s[x]})
  ELSE IF s.select THEN 6 ELSE 4

Request == [pc : Place, job : Job, reply : {"none", "output", "unavailable"},
            set : Setting, generation : Nat, caps : SUBSET Project,
            view : SUBSET Version, excluded : SUBSET Version,
            sent : SUBSET Version, denied : SUBSET Version,
            excerpts : SUBSET Version, shown : SUBSET Version,
            kept : SUBSET Version, held : SUBSET Version,
            calls : Nat, tries : 0..MaxTries, attempts : 0..MaxAttempts,
            spent : Nat, billed : Nat, missed : Nat, stop : BOOLEAN,
            refined : BOOLEAN,
            outcome : Outcome]

TypeOK ==
  /\ device \in [trusted : BOOLEAN, expired : BOOLEAN, generation : Nat]
  /\ grants \subseteq Project
  /\ apart \subseteq Project
  /\ current \subseteq Version
  /\ upsets \in 0..MaxUpsets
  /\ ask \in Request
  /\ ask.calls <= MaxCalls(ask.set)
  /\ barred \in [text : SUBSET Version, carried : SUBSET Version,
                 device : BOOLEAN]

-----------------------------------------------------------------------------
(* Who may read what, now.                                                 *)

DeviceOK ==
  /\ device.trusted /\ ~device.expired
  /\ device.generation = ask.generation

\* relation_allowed: the projects lie in one isolation group.
Related(ps) == Cardinality(ps) <= 1 \/ ps \intersect apart = {}

\* The privacy rules of the gate, currency left aside.
Private == {v \in Version : /\ ProjectsOf[v] \subseteq grants \intersect ask.caps
                            /\ Related(ProjectsOf[v])}
Permitted == Private \intersect current

\* authz of the final check: under the caller's grants, whatever the gates'
\* upper bound was.
Authorized == {v \in Version : /\ ProjectsOf[v] \subseteq grants
                               /\ Related(ProjectsOf[v])}
Citable == Authorized \intersect current

\* The versions whose text the prompt of this job carries.
PromptIds ==
  (CASE ask.job \in {"plan", "refine"} -> ask.view
     [] ask.job \in {"rerank", "select"} -> ask.excerpts
     [] OTHER -> ask.shown) \ ask.excluded

Need == IF ask.set.select THEN 3 ELSE 2
Writer == CASE ask.set.mode = "cite" -> "write"
            [] ask.set.mode = "prose" -> "prose"
            [] OTHER -> "answer"

Unbarred == [text |-> {}, carried |-> {}, device |-> FALSE]

-----------------------------------------------------------------------------
(* The request's beginning, and the ways it ends.                          *)

NewAsk(s) ==
  [pc |-> "start", job |-> "plan", reply |-> "none", set |-> s,
   generation |-> 0, caps |-> {}, view |-> {}, excluded |-> {}, sent |-> {},
   denied |-> {}, excerpts |-> {}, shown |-> {}, kept |-> {}, held |-> {},
   calls |-> 0, tries |-> 0, attempts |-> 0, spent |-> 0, billed |-> 0,
   missed |-> 0, stop |-> FALSE, refined |-> FALSE, outcome |-> "none"]

Init ==
  /\ device = [trusted |-> TRUE, expired |-> FALSE, generation |-> 0]
  /\ grants = Project
  /\ apart = {}
  /\ current = Version
  /\ upsets = 0
  /\ ask \in {NewAsk(s) : s \in Setting}
  /\ barred = Unbarred

\* A step of the request: what is barred is forgotten with the attempt.
Step ==
  /\ barred' = IF ask'.pc \in Attempting THEN barred ELSE Unbarred
  /\ UNCHANGED world

Ended(o) == [NewAsk(ask.set) EXCEPT !.pc = "end", !.outcome = o]
Calling(r, j) == [r EXCEPT !.pc = "call", !.job = j, !.reply = "none"]
Replied(reply) == [ask EXCEPT !.pc = "returned", !.reply = reply, !.tries = 0]
Unavailable == Replied("unavailable")
Stopped == [Unavailable EXCEPT !.stop = TRUE]

\* No slot, disabled, or the request transaction could not be released; or
\* the project is not the caller's to read.
Refuse ==
  /\ ask.pc = "start"
  /\ ask' \in {Ended("E_UNAVAILABLE")} \union
             IF Home \in grants THEN {} ELSE {Ended("E_FORBIDDEN")}
  /\ Step

\* The map phase: the request transaction holds the device, so the caller's
\* authority is the one the request came with; detach commits it.
Begin ==
  /\ ask.pc = "start"
  /\ device.trusted /\ ~device.expired
  /\ Home \in grants
  /\ ask' = Calling([ask EXCEPT !.generation = device.generation,
                                !.caps = grants,
                                !.view = Citable], "plan")
  /\ Step

\* A statement times out, a connection is lost; in flight, that of the
\* attempt's settlement or of its row.
DatabaseFails ==
  /\ ask.pc \in {"start", "try", "carried", "attempt", "precheck",
                 "precarried", "ready", "flight", "retrieve", "drill",
                 "final", "lock", "read"}
  /\ ask' = Ended("error")
  /\ Step

-----------------------------------------------------------------------------
(* _call: one logical call of the model.                                   *)

Capped == ask.calls >= MaxCalls(ask.set)

CallSkipped ==
  /\ ask.pc = "call"
  /\ Capped
  /\ ask' = Replied("none")
  /\ Step

CallStopped ==
  /\ ask.pc = "call"
  /\ ~Capped
  /\ ask.stop
  /\ ask' = Unavailable
  /\ Step

CallBegins ==
  /\ ask.pc = "call"
  /\ ~Capped
  /\ ~ask.stop
  /\ ask' = [ask EXCEPT !.pc = "try"]
  /\ Step

\* A prompt is built at most MaxTries times, and not when time is short.
NoMoreTries ==
  /\ ask.pc = "try"
  /\ ask' = Unavailable
  /\ Step

\* After the gates: denied items are excluded and the prompt is built again;
\* otherwise the call must fit what the question has left to spend.
AfterGates(denied) ==
  IF denied # {}
  THEN {[ask EXCEPT !.pc = "try", !.tries = @ + 1, !.denied = {},
                    !.excluded = @ \union denied]}
  ELSE {Stopped} \union IF ask.spent + Worst[ask.job] > MaxSpend THEN {}
                        ELSE {[ask EXCEPT !.pc = "attempt"]}

Gate ==
  /\ ask.pc = "try"
  /\ ask.tries < MaxTries
  /\ ask' \in IF ~DeviceOK THEN {Ended("E_AUTH")}
              ELSE IF ask.sent = {} THEN AfterGates(PromptIds \ Permitted)
              ELSE {[ask EXCEPT !.pc = "carried",
                                !.denied = PromptIds \ Permitted]}
  /\ Step

\* Text already sent may ride along in the queries or in a draft.
GateCarried ==
  /\ ask.pc = "carried"
  /\ ask' \in IF ~DeviceOK THEN {Ended("E_AUTH")}
              ELSE IF ~(ask.sent \subseteq Private)
              THEN {Ended("E_UNAVAILABLE")}
              ELSE AfterGates(ask.denied)
  /\ Step

-----------------------------------------------------------------------------
(* The attempts of the call: retries and fallbacks of the provider.        *)

FaultyAttemptBeginsCheckedOnce ==
  /\ ask.pc = "attempt"
  /\ ask.spent + Worst[ask.job] <= MaxSpend
  /\ ask' = [ask EXCEPT !.pc = IF ask.attempts > 0 THEN "ready"
                               ELSE "precheck"]
  /\ barred' = [text |-> Version \ Permitted, carried |-> Version \ Private,
                device |-> ~DeviceOK]
  /\ UNCHANGED world

\* attempt_guard; what is denied already at this moment may not be sent.
AttemptBegins ==
  /\ ask.pc = "attempt"
  /\ ask.spent + Worst[ask.job] <= MaxSpend
  /\ ask' = [ask EXCEPT !.pc = "precheck"]
  /\ barred' = [text |-> Version \ Permitted, carried |-> Version \ Private,
                device |-> ~DeviceOK]
  /\ UNCHANGED world

\* Its worst case does not fit the money left, or the tokens left.
AttemptUnaffordable ==
  /\ ask.pc = "attempt"
  /\ ask' = Stopped
  /\ Step

\* The deadline, the spend guard, the breakers or the retry limits say no.
AttemptRefused ==
  /\ ask.pc = "attempt"
  /\ ask' = Unavailable
  /\ Step

\* PrivacyDenied: the call builds its prompt again.
Denied == [ask EXCEPT !.pc = "try", !.tries = @ + 1]

Precheck ==
  /\ ask.pc = "precheck"
  /\ ask' = IF ~DeviceOK THEN Ended("E_AUTH")
            ELSE IF ~(PromptIds \subseteq Permitted) THEN Denied
            ELSE [ask EXCEPT !.pc = IF ask.sent \subseteq PromptIds
                                    THEN "ready" ELSE "precarried"]
  /\ Step

PrecheckCarried ==
  /\ ask.pc = "precarried"
  /\ ask' = IF ~DeviceOK THEN Ended("E_AUTH")
            ELSE IF ~(ask.sent \ PromptIds \subseteq Private) THEN Denied
            ELSE [ask EXCEPT !.pc = "ready"]
  /\ Step

FaultySendOnceMore ==
  /\ ask.pc = "ready"
  /\ ask.attempts <= MaxAttempts
  /\ ask' = [ask EXCEPT !.pc = "flight", !.attempts = @ + 1]
  /\ Step

\* The call of the lineage is claimed, and the request goes out.
Send ==
  /\ ask.pc = "ready"
  /\ ask.attempts < MaxAttempts
  /\ ask' = [ask EXCEPT !.pc = "flight", !.attempts = @ + 1]
  /\ Step

\* The ceiling is reached, or the time is up during the checks or after them.
NotSent ==
  /\ ask.pc \in {"precheck", "precarried", "ready"}
  /\ ask' = Unavailable
  /\ Step

\* An attempt is over: its charge is settled and, with its row, tallied.
Charged(r, c) == [r EXCEPT !.spent = @ + c, !.billed = @ + c]

\* What an answer costs: what its usage reports, which may be more than the
\* worst case it was priced at, or the worst case when that is not reliable.
Answered == Cost \union {Worst[ask.job]}

Succeed ==
  /\ ask.pc = "flight"
  /\ LET r == [Replied("output") EXCEPT !.calls = @ + 1,
                                        !.sent = @ \union PromptIds]
     IN \E c \in Answered : ask' = Charged(r, c)
  /\ Step

FaultyAttemptFailsUntallied ==
  /\ ask.pc = "flight"
  /\ \E c \in Answered \union {0} :
       ask' = [ask EXCEPT !.pc = "attempt", !.billed = @ + c]
  /\ Step

\* An error known to be free, a timeout or another error at the worst case,
\* or an answer of the wrong form at its cost.
AttemptFails ==
  /\ ask.pc = "flight"
  /\ \E c \in Answered \union {0} :
       ask' = Charged([ask EXCEPT !.pc = "attempt"], c)
  /\ Step

\* The call's time is up while the request is out: the worst case, tallied.
CutInFlight ==
  /\ ask.pc = "flight"
  /\ ask' = Charged(Unavailable, Worst[ask.job])
  /\ Step

\* It is up while the attempt is settled: the settlement is completed, but
\* its row is not written any more.
CutBeforeRow ==
  /\ ask.pc = "flight"
  /\ \E c \in Answered \union {0} :
       /\ ask.missed + c <= MaxMissed
       /\ ask' = [Unavailable EXCEPT !.billed = @ + c, !.missed = @ + c]
  /\ Step

-----------------------------------------------------------------------------
(* _loop: what follows each job's reply.                                   *)

\* The requests that may follow an answer with these sources.  An optional
\* step needs time, and is left out when too little is left.
After(kept) ==
  LET r == [ask EXCEPT !.kept = kept]
      finish == [r EXCEPT !.pc = "final"]
  IN {finish} \union
     IF ask.refined THEN {}
     ELSE IF kept = {}
     THEN IF ask.calls + Need <= MaxCalls(ask.set)
          THEN {Calling([r EXCEPT !.refined = TRUE], "refine")} ELSE {}
     ELSE IF ask.set.mode = "claims" THEN {Calling(r, "check")} ELSE {}

\* The optional steps between the prose and what follows an answer.
AfterProse(kept, done) ==
  LET r == [ask EXCEPT !.kept = kept,
                       !.shown = IF done = {} THEN @ \ ask.excluded ELSE @]
  IN IF kept # {} /\ ask.set.expand /\ "expand" \notin done
     THEN {Calling(r, "expand")}
     ELSE IF kept # {} /\ ask.set.attribute THEN {Calling(r, "attribute")}
     ELSE After(kept)

\* The answer step over these excerpts; select only in the cite mode.
Answering(excerpts) ==
  LET r == [ask EXCEPT !.excerpts = excerpts, !.shown = excerpts]
  IN {Calling(r, Writer)} \union
     IF ask.set.mode = "cite" /\ ask.set.select
        /\ excerpts \ ask.excluded # {}
     THEN {Calling(r, "select")} ELSE {}

Returned(j) == ask.pc = "returned" /\ ask.job = j

\* Without a plan the question alone is searched.
PlanReturns ==
  /\ Returned("plan")
  /\ ask' = [ask EXCEPT !.pc = "retrieve"]
  /\ Step

\* fresh_ctx: the caller's authority now.
Unauthorized == ~DeviceOK \/ Home \notin grants
Refusal == Ended(IF ~DeviceOK THEN "E_AUTH" ELSE "E_FORBIDDEN")

Seen == ask.view \ ask.excluded
Live == Seen \intersect current

\* The searches and the drill.  With rerank, the candidates of the first
\* retrieval go to a call of their own before the drill.  A refinement skips
\* the excerpts it has, but may find another one of the same version.
Retrieve ==
  /\ ask.pc = "retrieve"
  /\ IF Unauthorized THEN ask' = Refusal
     ELSE IF ask.refined
     THEN \E found \in SUBSET Live :
            ask' \in IF found = {} THEN {[ask EXCEPT !.pc = "final"]}
                     ELSE Answering(ask.excerpts \union found)
     ELSE IF ask.set.rerank
     THEN \E rows \in SUBSET Seen :
            ask' = IF Cardinality(rows) < 2 THEN [ask EXCEPT !.pc = "drill"]
                   ELSE Calling([ask EXCEPT !.excerpts = rows], "rerank")
     ELSE \E found \in SUBSET Live : ask' \in Answering(found)
  /\ Step

\* Whatever the rerank said, the drill reads in a transaction of its own.
RerankReturns ==
  /\ Returned("rerank")
  /\ ask' = [ask EXCEPT !.pc = "drill"]
  /\ Step

Drill ==
  /\ ask.pc = "drill"
  /\ IF Unauthorized THEN ask' = Refusal
     ELSE \E found \in SUBSET Live : ask' \in Answering(found)
  /\ Step

\* Nothing picked, or no reply: the writer sees every excerpt.
SelectReturns ==
  /\ Returned("select")
  /\ \E picked \in SUBSET (ask.excerpts \ ask.excluded) :
       /\ ask.reply # "output" => picked = {}
       /\ ask' = Calling([ask EXCEPT !.shown = IF picked = {} THEN ask.excerpts
                                               ELSE picked], Writer)
  /\ Step

\* A first answer that was not given ends the question, unless the question's
\* budget stopped it; after a refinement the earlier answer stands.
AnswerReturns ==
  /\ Returned(Writer)
  /\ CASE ask.reply = "output" ->
            \E kept \in SUBSET (ask.shown \ ask.excluded) :
              ask' \in IF Writer = "prose" THEN AfterProse(kept, {})
                       ELSE After(kept)
       [] ask.reply = "unavailable" /\ ~ask.refined /\ ~ask.stop ->
            ask' = Ended("E_UNAVAILABLE")
       [] OTHER -> ask' \in After(ask.kept)
  /\ Step

\* What expand adds stands on the same excerpts.
ExpandReturns ==
  /\ Returned("expand")
  /\ \E added \in SUBSET ask.shown :
       /\ ask.reply # "output" => added = {}
       /\ ask' \in AfterProse(ask.kept \union added, {"expand"})
  /\ Step

\* Without it the sentences keep the sources the writer named.
AttributeReturns ==
  /\ Returned("attribute")
  /\ \E kept \in SUBSET ask.shown :
       /\ ask.reply # "output" => kept = ask.kept
       /\ ask' \in After(kept)
  /\ Step

RefineReturns ==
  /\ Returned("refine")
  /\ ask' \in {[ask EXCEPT !.pc = p] : p \in IF ask.reply = "output"
                                         THEN {"retrieve", "final"}
                                         ELSE {"final"}}
  /\ Step

\* merge_check: the pass only adds to the draft.
CheckReturns ==
  /\ Returned("check")
  /\ \E added \in SUBSET (ask.shown \ ask.excluded) :
       /\ ask.reply # "output" => added = {}
       /\ ask' = [ask EXCEPT !.pc = "final", !.kept = @ \union added]
  /\ Step

-----------------------------------------------------------------------------
(* _finish: the final check, one transaction.                              *)

FinalAuthority ==
  /\ ask.pc = "final"
  /\ ask' = IF Unauthorized THEN Refusal ELSE [ask EXCEPT !.pc = "lock"]
  /\ Step

FaultyFinalLockNothing ==
  /\ ask.pc = "lock"
  /\ ask' = [ask EXCEPT !.pc = "read"]
  /\ Step

\* The returned versions, and their projects, are locked FOR SHARE.
FinalLock ==
  /\ ask.pc = "lock"
  /\ ask' = [ask EXCEPT !.pc = "read", !.held = ask.kept]
  /\ Step

\* Something sent is no longer the caller's: no answer.  A claim without the
\* sources it needs is dropped.
FinalRead ==
  /\ ask.pc = "read"
  /\ \E kept \in SUBSET (ask.kept \intersect Citable) :
       /\ ~(ask.sent \subseteq Authorized) => kept = {}
       /\ ask' = [ask EXCEPT !.pc = "decided", !.kept = kept]
  /\ Step

FinalCommit ==
  /\ ask.pc = "decided"
  /\ ask' = Ended(IF ask.kept = {} THEN "abstain" ELSE "answer")
  /\ Step

-----------------------------------------------------------------------------
(* What changes around the question.                                       *)

DeviceHeld == ask.pc \in {"lock", "read", "decided"}
ProjectsHeld == IF ask.pc \in {"read", "decided"}
                THEN {Home} \union UNION {ProjectsOf[v] : v \in ask.held}
                ELSE {}

\* What is permitted again is barred no more.
Upset ==
  /\ ask.pc # "end"
  /\ upsets < MaxUpsets
  /\ upsets' = upsets + 1
  /\ UNCHANGED ask
  /\ barred' = [text |-> barred.text \ Permitted',
                carried |-> barred.carried \ Private',
                device |-> barred.device /\ ~DeviceOK']

Revoke ==
  /\ device.trusted /\ ~DeviceHeld
  /\ device' = [device EXCEPT !.trusted = FALSE, !.generation = @ + 1]
  /\ grants' = {}
  /\ UNCHANGED <<apart, current>>
  /\ Upset

\* A new token, with the expiry kept or a new one.
Rotate ==
  /\ device.trusted /\ ~DeviceHeld
  /\ device' = [device EXCEPT !.generation = @ + 1, !.expired = FALSE]
  /\ UNCHANGED <<grants, apart, current>>
  /\ Upset

\* Time takes no lock.
Expire ==
  /\ ~device.expired
  /\ device' = [device EXCEPT !.expired = TRUE]
  /\ UNCHANGED <<grants, apart, current>>
  /\ Upset

Grant(p) ==
  /\ device.trusted /\ ~DeviceHeld
  /\ p \notin grants
  /\ grants' = grants \union {p}
  /\ UNCHANGED <<device, apart, current>>
  /\ Upset

Ungrant(p) ==
  /\ ~DeviceHeld
  /\ p \in grants
  /\ grants' = grants \ {p}
  /\ UNCHANGED <<device, apart, current>>
  /\ Upset

\* ops project policy set librarian_cross_project exclude, or include.
SetPolicy(p) ==
  /\ p \notin ProjectsHeld
  /\ apart' \in {apart \union {p}, apart \ {p}} \ {apart}
  /\ UNCHANGED <<device, grants, current>>
  /\ Upset

\* A revision or a tombstone closes the version.
Supersede(v) ==
  /\ v \in current \ ask.held
  /\ current' = current \ {v}
  /\ UNCHANGED <<device, grants, apart>>
  /\ Upset

Done == ask.pc = "end" /\ UNCHANGED vars

-----------------------------------------------------------------------------
Call == CallSkipped \/ CallStopped \/ CallBegins \/ NoMoreTries \/ Gate
        \/ GateCarried
Attempt == AttemptBegins \/ AttemptUnaffordable \/ AttemptRefused \/ Precheck
           \/ PrecheckCarried \/ Send \/ NotSent \/ Succeed \/ AttemptFails
           \/ CutInFlight \/ CutBeforeRow
Loop == PlanReturns \/ Retrieve \/ RerankReturns \/ Drill \/ SelectReturns
        \/ AnswerReturns \/ ExpandReturns \/ AttributeReturns
        \/ RefineReturns \/ CheckReturns
Finish == FinalAuthority \/ FinalLock \/ FinalRead \/ FinalCommit
Handle == Refuse \/ Begin \/ Call \/ Attempt \/ Loop \/ Finish

Around ==
  \/ Revoke \/ Rotate \/ Expire
  \/ \E p \in Project : Grant(p) \/ Ungrant(p) \/ SetPolicy(p)
  \/ \E v \in Version : Supersede(v)

Next == Handle \/ DatabaseFails \/ Around \/ Done

Spec == Init /\ [][Next]_vars

-----------------------------------------------------------------------------
\* What goes to a provider was the caller's when the attempt began, or became
\* so before it was sent: the text of the prompt, the text sent earlier that
\* it may carry in derived form, and the device's authority.  Only a change
\* that commits during the attempt's own checks may be missed.
SentWasPermitted ==
  ask.pc \in {"ready", "flight"} =>
    /\ PromptIds \intersect barred.text = {}
    /\ ask.sent \intersect barred.carried = {}
    /\ ~barred.device

\* At the commit of the final check, an answer stands on versions that are
\* current and readable, everything sent is still granted, and the device is
\* trusted under the token the question came with.
AnswerStands ==
  [][(ask.pc = "decided" /\ ask'.outcome = "answer") =>
       /\ ask.kept # {} /\ ask.kept \subseteq Citable
       /\ \A v \in ask.sent : ProjectsOf[v] \subseteq grants
       /\ device.trusted /\ device.generation = ask.generation]_vars

\* When an attempt goes out, what the question was really charged until then
\* and this attempt at its worst fit its budget, but for charges whose row a
\* cut call did not write; and after a budget stop nothing is sent.  So no
\* charge above its worst case is followed by another unless both fit.
WithinBudget ==
  ask.pc \in {"ready", "flight"} =>
    /\ ask.billed + Worst[ask.job] <= MaxSpend + ask.missed
    /\ ~ask.stop

-----------------------------------------------------------------------------
(* The inductive invariant behind these.                                   *)

InCall == {"try", "carried", "attempt"} \union Attempting

Tallied(r) == r.billed = r.spent + r.missed

\* A call that goes on was neither capped nor stopped, and its prompt may be
\* built again; an attempt that goes on can be afforded at its worst.  What
\* was charged is in the tally or has no row.
CallAllowed ==
  /\ ask.pc \in InCall => ~ask.stop /\ ask.calls < MaxCalls(ask.set)
  /\ ask.pc \in InCall \ {"try"} => ask.tries < MaxTries
  /\ ask.pc \in Attempting => ask.spent + Worst[ask.job] <= MaxSpend
  /\ Tallied(ask)

\* What is barred is not permitted, and what may not be carried may not be
\* text; each check passed leaves its part of the prompt unbarred.
ChecksPassed ==
  /\ barred.carried \subseteq barred.text
  /\ ask.pc \in Attempting =>
       /\ barred.text \intersect Permitted = {}
       /\ barred.carried \intersect Private = {}
       /\ barred.device => ~DeviceOK
  /\ ask.pc \in Attempting \ {"precheck"} =>
       PromptIds \intersect barred.text = {} /\ ~barred.device
  /\ ask.pc \in {"ready", "flight"} => ask.sent \intersect barred.carried = {}

\* What the final check has locked and read still holds.
FinalHolds ==
  /\ ask.pc # "end" => ask.outcome = "none"
  /\ DeviceHeld => device.trusted /\ device.generation = ask.generation
  /\ ask.pc \in {"read", "decided"} => ask.kept \subseteq ask.held
  /\ ask.pc = "decided" =>
       /\ ask.kept \subseteq Citable
       /\ ask.kept # {} => \A v \in ask.sent : ProjectsOf[v] \subseteq grants

IInv == TypeOK /\ CallAllowed /\ ChecksPassed /\ FinalHolds

=============================================================================
