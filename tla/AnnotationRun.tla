--------------------------- MODULE AnnotationRun ----------------------------
(***************************************************************************)
(* One call of Annotator.annotate (app/annotators): what the language      *)
(* model claims about the sources of its annotation, what the service      *)
(* makes of those claims in each mode, and the time it takes over it.      *)
(*                                                                         *)
(* Of an annotation only the citations are kept, in the order in which     *)
(* citation_bearing_items walks them.                                      *)
(*                                                                         *)
(* A definition whose name holds "_" is a broken variant of the definition *)
(* that follows it, for the property that must catch it.                   *)
(***************************************************************************)
EXTENDS Citations

CONSTANTS RawCitations,   \* what the model may return where a citation is due
          MaxCitations,   \* bound on the citations of one answer
          MaxCalls,       \* MAX_AGENT_VERIFICATION_CALLS
          Timeout,        \* LLM_TIMEOUT_SECONDS, in ticks
          MinCall,        \* the 1.0 s a call is always given, in ticks
          ClientTries,    \* how often the provider's client sends one call
          Waits,          \* how many waits within its timeout a try is made of
          Pause           \* bound on the ticks of a local step or a client's pause

Modes == {"mock", "single_call", "agent"}
Nodes == {"plan", "act", "verify", "finalize"}
CallErrors == {"LLM_TIMEOUT", "LLM_RATE_LIMITED", "UNKNOWN_WORKER_ERROR",
               "LLM_SCHEMA_VALIDATION_FAILED"}

ASSUME RawAssumption == RawCitations \subseteq Claim(Statuses \cup {"other", Junk})
ASSUME TimesAssumption == /\ MaxCitations \in Nat /\ MaxCalls \in Nat /\ Pause \in Nat
                          /\ Timeout \in Nat \ {0} /\ MinCall \in Nat \ {0}
                          /\ ClientTries \in Nat \ {0}

\* A try waits for the pool, for a connection, to write, and for each chunk of the
\* answer: the timeout is one on each wait, and no code counts them. That there
\* are no more than Waits of them is an assumption on the provider.
ASSUME WaitsAssumption == Waits \in Nat \ {0}

VARIABLES mode,     \* annotator_mode
          pc,       \* the next node of the graph, or where the run ended
          now,      \* ticks since annotate() was entered
          draft,    \* the citations of the validated model answer
          checked,  \* the citations verify has been through
          calls,    \* tool_calls
          result,   \* the citations of the annotation returned
          warned,   \* is SINGLE_CALL_CITATION_WARNING in its warnings?
          error     \* the code of the AnnotationError raised

vars == <<mode, pc, now, draft, checked, calls, result, warned, error>>

Init == /\ mode \in Modes
        /\ pc = IF mode = "agent" THEN "plan" ELSE mode
        /\ now \in 0..Pause
        /\ draft = <<>> /\ checked = <<>> /\ result = <<>>
        /\ calls = 0
        /\ warned = FALSE
        /\ error = "none"

-----------------------------------------------------------------------------
\* A step that takes its time.
LocalStep == \E d \in 0..Pause : now' = now + d

Raise(code) == pc' = "failed" /\ error' = code

\* _check_deadline at the entry of each node, once more in _create_cited_draft.
CheckDeadline ==
  /\ pc \in Nodes /\ now >= Timeout
  /\ Raise("LLM_TIMEOUT")
  /\ UNCHANGED <<mode, now, draft, checked, calls, result, warned>>

\* A node whose look at the deadline lets it go on.
Enter(node) == pc = node /\ now < Timeout

\* Each call is given the whole of LLM_TIMEOUT_SECONDS.
CallLimit_Whole(t) == Timeout

\* The timeout= of a call made at t: what is left, and no less than MinCall.
CallLimit(t) == CASE mode # "agent" -> Timeout
                  [] mode = "agent" /\ t + MinCall <= Timeout -> Timeout - t
                  [] OTHER -> MinCall

\* The clients are made without max_retries: one call is sent again after a
\* timeout, a rate limit or a lost connection, with the whole limit for each of
\* its waits, and with a pause ahead of it. The last pause is for the answer to
\* be validated.
CallTime(t) == ClientTries * (Waits * CallLimit(t) + Pause)

\* The messages are built after the last look at the deadline, then the call is
\* made, at t.
CallReturns == \E t \in now..(now + Pause) : \E d \in 0..CallTime(t) : now' = t + d

\* The model call fails: a wait of its last try runs into the limit, or an error
\* or an answer that cannot be repaired comes earlier.
CallFails ==
  /\ Enter("act") \/ pc = "single_call"
  /\ \E code \in CallErrors, t \in now..(now + Pause) : \E d \in 0..CallTime(t) :
       /\ code = "LLM_TIMEOUT" => d >= CallLimit(t)
       /\ now' = t + d
       /\ Raise(code)
  /\ UNCHANGED <<mode, draft, checked, calls, result, warned>>

Answers == UNION {[1..n -> RawCitations] : n \in 0..MaxCitations}

\* The provenance is enforced only on what needed no repair.
SingleCall_Unforced ==
  /\ pc = "single_call"
  /\ \E raw \in Answers :
       LET cited == Repaired(raw)
       IN  /\ draft' = cited
           /\ result' = IF cited = raw THEN [i \in DOMAIN cited |-> Unverified(cited[i])]
                                       ELSE cited
           /\ warned' = (cited = raw /\ cited # <<>>)
  /\ CallReturns
  /\ pc' = "done"
  /\ UNCHANGED <<mode, checked, calls, error>>

\* OpenAIAnnotator and AnthropicAnnotator: call, validate, and force every
\* citation to "unverified".
SingleCall ==
  /\ pc = "single_call"
  /\ \E raw \in Answers :
       LET cited == Repaired(raw)
       IN  /\ draft' = cited
           /\ result' = [i \in DOMAIN cited |-> Unverified(cited[i])]
           /\ warned' = (cited # <<>>)
  /\ CallReturns
  /\ pc' = "done"
  /\ UNCHANGED <<mode, checked, calls, error>>

\* MockAnnotator cites nothing.
Mock == /\ pc = "mock"
        /\ pc' = "done"
        /\ UNCHANGED <<mode, now, draft, checked, calls, result, warned, error>>

Plan ==
  /\ Enter("plan")
  /\ LocalStep
  /\ pc' = "act"
  /\ UNCHANGED <<mode, draft, checked, calls, result, warned, error>>

\* The model answers with a draft.
Act ==
  /\ Enter("act")
  /\ \E raw \in Answers : draft' = Repaired(raw)
  /\ CallReturns
  /\ pc' = "verify"
  /\ UNCHANGED <<mode, checked, calls, result, warned, error>>

Verify ==
  /\ Enter("verify")
  /\ LocalStep
  /\ pc' = "checking"
  /\ UNCHANGED <<mode, draft, checked, calls, result, warned, error>>

\* The cap is met one call early.
CheckCitation_OneLess ==
  /\ pc = "checking" /\ Len(checked) < Len(draft)
  /\ LET c == draft[Len(checked) + 1]
     IN  \/ /\ calls + 1 < MaxCalls
            /\ calls' = calls + 1
            /\ \E v \in VerifyCitation(c) : checked' = Append(checked, v)
         \/ /\ calls + 1 >= MaxCalls
            /\ checked' = Append(checked, Unverified(c))
            /\ UNCHANGED calls
  /\ UNCHANGED <<mode, pc, now, draft, result, warned, error>>

\* One round of the loop of _verify: no deadline, but a cap on the tool calls.
CheckCitation ==
  /\ pc = "checking" /\ Len(checked) < Len(draft)
  /\ LET c == draft[Len(checked) + 1]
     IN  \/ /\ calls < MaxCalls
            /\ calls' = calls + 1
            /\ \E v \in VerifyCitation(c) : checked' = Append(checked, v)
            /\ LocalStep
         \/ /\ calls >= MaxCalls
            /\ checked' = Append(checked, Unverified(c))
            /\ UNCHANGED <<calls, now>>
  /\ UNCHANGED <<mode, pc, draft, result, warned, error>>

\* The loop is left at the cap.
EndVerify_AtCap ==
  /\ pc = "checking" /\ (Len(checked) = Len(draft) \/ calls >= MaxCalls)
  /\ LocalStep
  /\ result' = checked
  /\ pc' = "finalize"
  /\ UNCHANGED <<mode, draft, checked, calls, warned, error>>

\* The checked citations form a valid payload, so that nothing is repaired. The
\* time of the rounds at the cap, which only set a status, is counted here.
EndVerify ==
  /\ pc = "checking" /\ Len(checked) = Len(draft)
  /\ LocalStep
  /\ result' = checked
  /\ pc' = "finalize"
  /\ UNCHANGED <<mode, draft, checked, calls, warned, error>>

Finalize ==
  /\ Enter("finalize")
  /\ LocalStep
  /\ pc' = "done"
  /\ UNCHANGED <<mode, draft, checked, calls, result, warned, error>>

Next == \/ CheckDeadline \/ CallFails \/ SingleCall \/ Mock
        \/ Plan \/ Act \/ Verify \/ CheckCitation \/ EndVerify \/ Finalize

Spec == Init /\ [][Next]_vars

-----------------------------------------------------------------------------
(* Properties *)

TypeOK ==
  /\ mode \in Modes
  /\ pc \in Nodes \cup {"mock", "single_call", "checking", "done", "failed"}
  /\ now \in Nat /\ calls \in 0..MaxCalls
  /\ \A s \in {draft, checked, result} : s \in Seq(Citation)
  /\ warned \in BOOLEAN
  /\ error \in CallErrors \cup {"none"}

\* README, "The Agent": no citation is marked verified or revised unless the
\* quotation is in the source at the place it names, whatever the model claimed
\* of it and wherever the cap on the tool calls fell.
MarkedIsGrounded ==
  \A i \in DOMAIN result :
    result[i].status # "unverified" =>
      /\ mode = "agent"
      /\ result[i].snippet \in Source[PlaceOf(result[i])]

\* Outside agent mode every citation is unverified and the reader is warned.
SingleCallIsWarned ==
  pc = "done" /\ mode # "agent" /\ result # <<>> =>
    warned /\ \A i \in DOMAIN result : result[i].status = "unverified"

\* Verification drops, adds and moves no citation: the i-th of the result stands
\* where the i-th of the draft did, and quotes what it did unless it is revised.
NothingDropped ==
  pc = "done" =>
    /\ Len(result) = Len(draft)
    /\ \A i \in DOMAIN result :
         /\ PlaceOf(result[i]) = PlaceOf(draft[i])
         /\ result[i].status # "revised" => result[i].snippet = draft[i].snippet

\* A citation left unverified although it could have been looked up means that
\* the tool calls were spent on the ones before it.
CapSkipsOnlyTheTail ==
  pc = "done" /\ mode = "agent" =>
    \A i \in DOMAIN result :
      draft[i].snippet \in Source[PlaceOf(draft[i])] /\ result[i].status = "unverified"
      => i > MaxCalls

Larger(a, b) == IF a > b THEN a ELSE b

\* How far past the deadline a node that was entered in time can get: a call
\* made at once, of which every wait but one comes after the deadline; a call
\* made late, all of them MinCall long; or the loop over the citations, with the
\* steps at its two ends.
CallOverrun == Larger((ClientTries * Waits - 1) * Timeout + 1,
                      Pause + ClientTries * (Waits * MinCall)) + ClientTries * Pause
LongestOverrun == Larger(CallOverrun, (MaxCalls + 2) * Pause)

\* No deadline is looked at inside a node, nor by the client's own tries, nor by
\* the waits a try is made of: how late an agent run can end all the same, on a
\* provider that answers in Waits waits.
OverrunBounded ==
  mode = "agent" => now < Timeout + LongestOverrun

\* "The whole agent run is bounded by LLM_TIMEOUT_SECONDS", a last local step aside.
AgentRunBounded == mode = "agent" => now <= Timeout + Pause

-----------------------------------------------------------------------------
(* Inductive strengthening *)

AgentPoints == Nodes \cup {"checking"}

\* What has been computed at each point of a run: nothing ahead of the answer, a
\* verdict on the first of its citations while they are checked, on all of them
\* afterwards, and in the other modes a result whose citations are unverified.
Progress ==
  /\ pc \in AgentPoints => mode = "agent"
  /\ pc = "single_call" => mode = "single_call"
  /\ pc = "mock" => mode = "mock" /\ ~warned
  /\ pc \in {"plan", "act", "mock", "single_call"} => draft = <<>>
  /\ pc \in {"plan", "act", "mock", "single_call", "verify", "checking"} => result = <<>>
  /\ pc \in {"plan", "act", "mock", "single_call", "verify"} => checked = <<>> /\ calls = 0
  /\ pc = "finalize" \/ (pc = "done" /\ mode = "agent") =>
       result = checked /\ Len(checked) = Len(draft)
  /\ pc = "done" /\ mode # "agent" =>
       /\ result = [i \in DOMAIN draft |-> Unverified(draft[i])]
       /\ warned = (draft # <<>>)
  /\ pc = "failed" => result = <<>> \/ (mode = "agent" /\ result = checked)

\* The i-th verdict is one on the i-th citation, or the cap was met before it.
Checked(i) == \/ checked[i] \in VerifyCitation(draft[i])
              \/ checked[i] = Unverified(draft[i]) /\ i > MaxCalls

Verdicts == /\ Len(checked) <= Len(draft)
            /\ \A i \in DOMAIN checked : Checked(i)
            /\ calls <= Len(checked)
            /\ calls = Len(checked) \/ calls = MaxCalls

\* How late an agent run can be at each of its points.
OnTime == mode = "agent" =>
            /\ pc = "plan" => now <= Pause
            /\ pc = "act" => now < Timeout + Pause
            /\ pc = "verify" => now < Timeout + CallOverrun
            /\ pc = "checking" => now < Timeout + (calls + 1) * Pause
            /\ pc = "finalize" => now < Timeout + (MaxCalls + 2) * Pause
            /\ pc = "done" => now < Timeout + Pause
            /\ pc = "failed" => now < Timeout + LongestOverrun

RunInv == TypeOK /\ Progress /\ Verdicts /\ OnTime
=============================================================================
