------------------------------ MODULE ToolLoop ------------------------------
(***************************************************************************)
(* One conversation of the voice assistant: the loop that asks the model   *)
(* about an utterance until there is something to say or a tool for the    *)
(* node to run (core/tool_execution_engine.py), the handler around it      *)
(* (core/conversation_handler.py) and the transcript they share            *)
(* (core/conversation_cache.py).                                           *)
(*                                                                         *)
(* A request is an utterance or the results of the tools the node ran.     *)
(* The handler takes one request of a conversation at a time; it is cut    *)
(* at the calls of the model, whose replies are arbitrary.  A message is   *)
(* represented by its kind; blocks the handler rebuilds for every          *)
(* utterance (speaker, ambient context, router hint) are left out.         *)
(***************************************************************************)
EXTENDS Naturals, FiniteSets, SequencesExt

CONSTANTS
    Keys,         \* client tool calls, by name and arguments
    NativeIters,  \* max_iterations when the provider has native tools
    TextIters,    \* max_iterations for a text provider
    ForceTools,   \* the conversation's force_tool_calls
    InvalidMax,   \* JARVIS_INVALID_PARAM_RETRY_MAX
    HistoryTurns, \* conversation.max_turns; 0 keeps everything
    MaxRequests   \* bound on the requests

VARIABLES
    native,      \* the provider has native tools
    messages,    \* the transcript, by kind of message
    phase,       \* "idle", or the model call awaited: "loop", "format"
    pass,        \* the request's own state, see Pass
    must,        \* the cached router decision matches a must-call command
    recent,      \* issued calls still inside the dedupe window
    outstanding, \* calls sent to the node whose results are awaited
    outcome,     \* stop_reason of the latest request
    requests

vars == <<native, messages, phase, pass, must, recent, outstanding, outcome,
          requests>>

-----------------------------------------------------------------------------
ASSUME ItersAssumption == NativeIters \in Nat \ {0} /\ TextIters \in Nat \ {0}
ASSUME ForceAssumption == ForceTools \in BOOLEAN
ASSUME LimitsAssumption ==
    InvalidMax \in Nat /\ HistoryTurns \in Nat /\ MaxRequests \in Nat

\* The system prompt and the steering messages have role "system".
Steering == {"must_call", "dedupe", "iso", "invalid"}
FromUser == {"said", "recheck", "results"}
Kinds == Steering \cup FromUser
            \cup {"prompt", "reply", "refusal", "calls", "nameless", "tool"}

Shapes == {"question", "command", "other"}

(* The local variables of execute and what it is called with: the shape of *)
(* the utterance, sentinel_double_check, the iteration, popped_prose is    *)
(* set, double_checked, dedupe_nudged_keys.  answered is history: the      *)
(* request's model has given an answer in prose.                           *)
Pass ==
    [continuing : BOOLEAN, shape : Shapes, rescue : BOOLEAN, iteration : Nat,
     popped : BOOLEAN, rechecked : BOOLEAN, nudged : SUBSET Keys,
     answered : BOOLEAN]

NoPass ==
    [continuing |-> FALSE, shape |-> "other", rescue |-> FALSE, iteration |-> 0,
     popped |-> FALSE, rechecked |-> FALSE, nudged |-> {}, answered |-> FALSE]

MaxIterations == IF native THEN NativeIters ELSE TextIters

TypeOK ==
    /\ native \in BOOLEAN
    /\ messages \in Seq(Kinds)
    /\ phase \in {"idle", "loop", "format"}
    /\ pass \in Pass /\ pass.iteration <= MaxIterations
    /\ must \in BOOLEAN
    /\ recent \subseteq Keys
    /\ outstanding \in Nat /\ requests \in 0 .. MaxRequests
    /\ outcome \in {"none", "complete", "silent", "tools", "validation",
                    "error", "limit"}

\* warmup_conversation_with_tools caches the prompt.
Init ==
    /\ native \in BOOLEAN /\ messages = <<"prompt">> /\ phase = "idle"
    /\ pass = NoPass /\ must = FALSE /\ recent = {} /\ outstanding = 0
    /\ outcome = "none" /\ requests = 0

-----------------------------------------------------------------------------
(* The transcript.                                                         *)

Count(ms, kind) == Cardinality({i \in DOMAIN ms : ms[i] = kind})

\* ms, in its order, without the messages of these kinds.
Without(ms, kinds) ==
    LET kept[n \in 0 .. Len(ms)] ==
            IF n = 0 THEN <<>>
            ELSE IF ms[n] \in kinds THEN kept[n - 1] ELSE Append(kept[n - 1], ms[n])
    IN  kept[Len(ms)]

\* Faulty: the dedupe nudges of earlier requests stay.
ScrubbedMustCall(ms) == Without(ms, {"must_call"})

\* Faulty: by substring, which also matches the prompt that explains the tag.
ScrubbedBySubstring(ms) == Without(ms, {"must_call", "dedupe", "prompt"})

\* The stale steering messages removed when execute starts.
Scrubbed(ms) == Without(ms, {"must_call", "dedupe"})

\* _expects_continuation: the next message belongs to the same turn.
ExpectsContinuation(m) == m \in {"tool", "calls"}

\* Length of the leading run of system messages.
PrefixEnd(ms) ==
    LET others == {i \in DOMAIN ms : ms[i] \notin Steering \cup {"prompt"}}
    IN  IF others = {} THEN Len(ms)
        ELSE (CHOOSE i \in others : \A j \in others : i <= j) - 1

\* Where the turns after the prefix start.
TurnStarts(ms) ==
    {i \in (PrefixEnd(ms) + 1) .. Len(ms) :
        \/ i = PrefixEnd(ms) + 1
        \/ ms[i] \in FromUser /\ ~ExpectsContinuation(ms[i - 1])}

\* trim_history_to_max_turns: the prefix and the last HistoryTurns turns.
Trimmed(ms) ==
    LET starts == TurnStarts(ms)
        kept == CHOOSE i \in starts :
                    Cardinality({j \in starts : i <= j}) = HistoryTurns
    IN  IF HistoryTurns = 0 \/ Cardinality(starts) <= HistoryTurns THEN ms
        ELSE SubSeq(ms, 1, PrefixEnd(ms)) \o SubSeq(ms, kept, Len(ms))

-----------------------------------------------------------------------------
(* Requests.                                                               *)

\* execute with fresh local state; the model is asked about ms.
StartLoop(ms, p) ==
    /\ phase' = "loop" /\ messages' = Scrubbed(ms) /\ outcome' = "none"
    /\ pass' = [p EXCEPT !.iteration = 1]

\* process_voice_command_with_tools, up to the first call of the model.
Say(shape, rescue, matched) ==
    /\ phase = "idle" /\ requests < MaxRequests
    /\ requests' = requests + 1 /\ must' = matched
    /\ StartLoop(Append(Trimmed(messages), "said"),
                 [NoPass EXCEPT !.shape = shape, !.rescue = rescue])
    /\ UNCHANGED <<native, recent, outstanding>>

\* Noise, or an unverified wake: silent, and the transcript is not touched.
Ignored ==
    /\ phase = "idle" /\ requests < MaxRequests
    /\ requests' = requests + 1 /\ outcome' = "silent"
    /\ UNCHANGED <<native, messages, phase, pass, must, recent, outstanding>>

\* The request ends with a stop reason, its locals with it.
Finish(reason, ms) ==
    phase' = "idle" /\ outcome' = reason /\ messages' = ms /\ pass' = NoPass

\* _format_tool_result_text_mode: the results' own text is the answer, or
\* they are put to the model as a user message.
FormatResults(ms, p) ==
    \/ Finish("complete", Append(Without(ms, {"tool"}), "reply"))
    \/ /\ phase' = "format" /\ messages' = Append(Without(ms, {"tool"}), "results")
       /\ outcome' = "none" /\ pass' = p

\* continue_conversation_with_tool_results: the utterance is now the latest
\* user message, hints and all, so its shape is anything.
Continue(shape) ==
    /\ phase = "idle" /\ outstanding > 0 /\ requests < MaxRequests
    /\ outstanding' = outstanding - 1 /\ requests' = requests + 1
    /\ LET ms == Append(messages, "tool")
           p == [NoPass EXCEPT !.continuing = TRUE, !.shape = shape]
       IN  IF native THEN StartLoop(ms, p) ELSE FormatResults(ms, p)
    /\ UNCHANGED <<native, must, recent>>

-----------------------------------------------------------------------------
(* Replies of the model in the loop.                                       *)

InLoop == phase = "loop" /\ UNCHANGED <<native, must, requests>>
NothingSent == UNCHANGED <<recent, outstanding>>

\* The transcript once the model has answered: steering meant for this one
\* reply is dropped.
Heard(kind) ==
    LET ms == Append(messages, kind)
        checked == IF pass.rechecked THEN Without(ms, {"recheck"}) ELSE ms
    IN  IF pass.nudged # {} THEN Without(checked, {"dedupe"}) ELSE checked

\* The rejected reply is taken back and the model is steered instead.
Steered(ms, kind) == Append(Front(ms), kind)

\* The next iteration, or the loop's bound.
AskAgain(ms, p) ==
    IF p.iteration < MaxIterations
    THEN /\ pass' = [p EXCEPT !.iteration = @ + 1] /\ messages' = ms
         /\ UNCHANGED <<phase, outcome>>
    ELSE Finish("limit", ms)

\* The call of the model raised.
Fails == InLoop /\ NothingSent /\ Finish("error", messages)

\* The transcript with the popped answer back in place of the refusal and of
\* the steering right before it.
Restored(ms) ==
    LET keep == CHOOSE n \in 0 .. Len(ms) - 1 :
                    /\ n = 0 \/ ms[n] # "must_call"
                    /\ \A i \in n + 1 .. Len(ms) - 1 : ms[i] = "must_call"
    IN  Append(SubSeq(ms, 1, keep), "reply")

\* <not_for_me/>: a popped answer comes back; else one second opinion where
\* the wake was clearly directed; else silence.
NotForMe ==
    /\ InLoop /\ NothingSent
    /\ LET ms == Heard("refusal")
           again == pass.rescue /\ ~pass.rechecked /\ pass.iteration < MaxIterations
       IN  \/ pass.popped /\ Finish("complete", Restored(ms))
           \/ /\ ~pass.popped /\ again
              /\ AskAgain(Steered(ms, "recheck"), [pass EXCEPT !.rechecked = TRUE])
           \/ ~pass.popped /\ ~again /\ Finish("silent", ms)

\* The guards that take back a direct answer.  A "command" is shaped like an
\* action or a report and names a tool's keyword; claims: the reply promises
\* an action, and it or the utterance names a keyword.
ForceGuard(ms, claims) ==
    /\ ForceTools /\ Count(ms, "must_call") < 2 /\ ~pass.rechecked
    /\ \/ pass.shape = "command"
       \/ pass.shape = "other" /\ claims

MustCallGuard(ms) ==
    must /\ Count(ms, "must_call") < 1 /\ ~pass.rechecked /\ pass.shape # "question"

\* Faulty: only the force-tools guard keeps the answer it takes back.
ProseKeptByForce(claims, blank, closing) ==
    /\ InLoop /\ NothingSent
    /\ LET ms == Heard("reply")
       IN  IF ~closing /\ (ForceGuard(ms, claims) \/ MustCallGuard(ms))
           THEN AskAgain(Steered(ms, "must_call"),
                         [pass EXCEPT !.popped = @ \/ (ForceGuard(ms, claims) /\ ~blank),
                                      !.answered = @ \/ ~blank])
           ELSE Finish("complete", ms)

\* An answer without a tool call; closing: it carries <exchange_complete/>.
Prose(claims, blank, closing) ==
    /\ InLoop /\ NothingSent
    /\ LET ms == Heard("reply")
       IN  IF ~closing /\ (ForceGuard(ms, claims) \/ MustCallGuard(ms))
           THEN AskAgain(Steered(ms, "must_call"),
                         [pass EXCEPT !.popped = @ \/ ~blank,
                                      !.answered = @ \/ ~blank])
           ELSE Finish("complete", ms)

\* A native reply of calls without a name: none is left to act on, and the
\* model is asked again behind it.
NamelessCalls ==
    InLoop /\ NothingSent /\ native /\ AskAgain(Heard("nameless"), pass)

\* A call with dates that match no known key: one retry.
BadDates ==
    /\ InLoop /\ NothingSent
    /\ Count(messages, "iso") < 1
    /\ AskAgain(Steered(Heard("calls"), "iso"), pass)

\* Server tools together with client tools, or a call for examples: the
\* model sees the server's results before anything goes to the node.
ServerFirst ==
    InLoop /\ NothingSent /\ AskAgain(Append(Heard("calls"), "tool"), pass)

\* request_validation on its own: a question for the user.
AsksUser ==
    InLoop /\ NothingSent /\ Finish("validation", Append(Heard("calls"), "tool"))

\* Server tools only: a text provider has the results formatted.
ServerOnly ==
    /\ InLoop /\ NothingSent
    /\ LET ms == Append(Heard("calls"), "tool")
       IN  IF native THEN AskAgain(ms, pass) ELSE FormatResults(ms, pass)

\* _find_duplicate_issued_call.
Duplicate(k) == k \in recent /\ k \notin pass.nudged

\* A client call issued a moment ago: answer from its results, once.
NudgeRepeat(k) ==
    /\ InLoop /\ NothingSent
    /\ Duplicate(k)
    /\ AskAgain(Steered(Heard("calls"), "dedupe"),
                [pass EXCEPT !.nudged = @ \cup {k}])

\* A client call with invalid parameters: the call stays in the transcript.
\* The retries are counted by a tag that the message, which numbers them,
\* does not start with: the count is 0, and any positive cap lets it retry.
BadParams(k) ==
    /\ InLoop /\ NothingSent
    /\ ~Duplicate(k) /\ InvalidMax > 0
    /\ AskAgain(Append(Heard("calls"), "invalid"), pass)

\* A client call is recorded and returned to the node.
SendCall(k) ==
    /\ InLoop
    /\ ~Duplicate(k)
    /\ recent' = recent \cup {k}
    /\ outstanding' = outstanding + 1
    /\ Finish("tools", Heard("calls"))

-----------------------------------------------------------------------------
(* Replies of the formatting call of a text provider.                      *)

InFormat ==
    /\ phase = "format"
    /\ UNCHANGED <<native, must, recent, outstanding, requests>>

FormatFails == InFormat /\ Finish("error", messages)
Formatted == InFormat /\ Finish("complete", Append(messages, "reply"))
FormattedBlank == InFormat /\ Finish("complete", messages)

\* Only process_voice_command_with_tools looks for the sentinel here.
FormatNotForMe ==
    /\ InFormat
    /\ Finish(IF pass.continuing THEN "complete" ELSE "silent",
              Append(messages, "refusal"))

-----------------------------------------------------------------------------
\* The dedupe window of k's latest issue has passed.
WindowPasses(k) ==
    /\ k \in recent
    /\ recent' = recent \ {k}
    /\ UNCHANGED <<native, messages, phase, pass, must, outstanding, outcome, requests>>

Reply ==
    \/ Fails \/ NotForMe \/ NamelessCalls \/ BadDates
    \/ ServerFirst \/ AsksUser \/ ServerOnly
    \/ \E claims, blank, closing \in BOOLEAN : Prose(claims, blank, closing)
    \/ \E k \in Keys : NudgeRepeat(k) \/ BadParams(k) \/ SendCall(k)
    \/ FormatFails \/ Formatted \/ FormattedBlank \/ FormatNotForMe

Next ==
    \/ \E shape \in Shapes, rescue, matched \in BOOLEAN : Say(shape, rescue, matched)
    \/ \E shape \in Shapes : Continue(shape)
    \/ Ignored
    \/ Reply
    \/ \E k \in Keys : WindowPasses(k)

Spec == Init /\ [][Next]_vars

-----------------------------------------------------------------------------
(* Properties.                                                             *)

\* The request under way ends, and how.
Ends(reason) == phase # "idle" /\ phase' = "idle" /\ outcome' = reason

\* "The model answered the utterance", so whether it was for Jarvis is
\* settled: with a native provider no request whose model gave an answer ends
\* in silence, however the guards cornered it afterwards (popped_prose).
AnswerNotSilenced == [][native /\ Ends("silent") => ~pass.answered]_vars

\* The same of every provider.
AnswerNeverSilenced == [][Ends("silent") => ~pass.answered]_vars

\* The calls of the model that execute has scrubbed the transcript for: all
\* but a text provider's formatting of the results the node sent.
Scrubs == phase = "loop" \/ (phase = "format" /\ ~pass.continuing)

\* Steering is for the reply it was written for: wherever execute asks, for a
\* decision or to have its server tools' results put into words, the model
\* sees no dedupe nudge that is not the last message, at the start of a
\* request no must-call nag of an earlier one, and at any time two nags at most.
SteeringIsOneShot ==
    Scrubs =>
        /\ \A i \in DOMAIN messages : messages[i] = "dedupe" => i = Len(messages)
        /\ pass.iteration = 1 => Count(messages, "must_call") = 0
        /\ Count(messages, "must_call") <= 2

\* The same of every call of the model, the formatting of the node's results
\* included (the code does not keep it, see README).
SteeringNeverStale ==
    phase # "idle" =>
        /\ \A i \in DOMAIN messages : messages[i] = "dedupe" => i = Len(messages)
        /\ pass.iteration <= 1 => Count(messages, "must_call") = 0

\* The same of the request for a second opinion.
RecheckIsOneShot ==
    phase = "loop" =>
        \A i \in DOMAIN messages : messages[i] = "recheck" => i = Len(messages)

\* Every prompt of the loop starts with the system prompt, holds an utterance
\* and ends with something to answer, never with a reply of the model that
\* was taken back or calls left without results; nameless calls, which the
\* code forgets, are the one exception.
PromptIsSound ==
    phase = "loop" =>
        /\ messages[1] = "prompt"
        /\ \E i \in DOMAIN messages : messages[i] = "said"
        /\ Last(messages) \notin {"reply", "refusal", "calls"}

\* Without the exception (the code does not keep it, see README).
NothingUnanswered == phase = "loop" => Last(messages) # "nameless"

\* The retries of one utterance for invalid parameters stay within their
\* maximum (the code does not keep it, see README).
InvalidRetriesCapped ==
    Cardinality({i \in DOMAIN messages :
        messages[i] = "invalid" /\ \A j \in i .. Len(messages) : messages[j] # "said"})
    <= InvalidMax

\* The inductive invariant behind these two (proved in ToolLoop_proofs): the
\* prompt stays in front whatever is scrubbed or trimmed, an utterance stays
\* while anything is to be answered, and whoever was nudged knows it.
TranscriptInv ==
    /\ messages # <<>> /\ messages[1] = "prompt"
    /\ phase # "idle" \/ outstanding > 0 =>
          \E i \in DOMAIN messages : messages[i] = "said"
    /\ phase = "loop" => pass.iteration > 0
    /\ phase = "loop" /\ pass.nudged = {} =>
          \A i \in DOMAIN messages : messages[i] # "dedupe"

\* A nudge leaves room for the reply it asks for: "whatever it returns next
\* is accepted".
NudgeIsAnswered == [][(\E k \in Keys : NudgeRepeat(k)) => phase' = "loop"]_vars
=============================================================================
