--------------------------- MODULE GatewayClient ---------------------------
(* How the layer 2 gateway asks a backend (layer2/src/ai_layer2_gateway.c): its *)
(* options, one HTTP request of the inference worker at a time, what it reads   *)
(* out of the answer and whether that overrides layer 1.  Queue and cache are   *)
(* Layer2Gateway's.  An answer arrives in parts, and its connection may end or  *)
(* time out behind any of them.                                                 *)
EXTENDS Naturals, SequencesExt

CONSTANTS
  MaxOptions,   \* bound: options on the command line
  Confidences,  \* what a backend's answer says of its confidence, in percent
  Statuses      \* HTTP statuses of an answer

GatewayClientAssumption ==
  /\ MaxOptions \in Nat /\ Confidences \subseteq Nat /\ Confidences # {} /\ 200 \in Statuses

VARIABLES
  settings,  \* cfg
  place,     \* where do_http_post() is
  request,   \* the domain of the request
  response,  \* what the backend answers
  arrived,   \* how many parts of it have been received
  outcome    \* of the last request: whether it succeeded, its decision, its
             \* confidence, and whether it overrides layer 1

clientRest == <<settings, request, response>>
gatewayVars == <<clientRest, place, arrived, outcome>>

Backends == {"deepseek", "kimi"}
Domains == {"sched", "io", "sec"}
DecisionStrings == {"keep", "promote", "drop", "block"}  \* four of the ten
KnownModels == [deepseek |-> {"deepseek-chat", "deepseek-coder", "deepseek-reasoner"},
                kimi |-> {"moonshot-v1-8k", "moonshot-v1-32k", "moonshot-v1-128k"}]
DefaultModel == [deepseek |-> "deepseek-chat", kimi |-> "moonshot-v1-8k"]
TriedModels == {"deepseek-coder", "moonshot-v1-32k", "gpt"}
TriedThreshold == 40

Outcomes == [ok : BOOLEAN, decision : DecisionStrings, confidence : 0..100, override : BOOLEAN]
Responses == [status : Statuses, json : BOOLEAN, decision : DecisionStrings,
              confidence : Confidences]

---------------------------------------------------------------------------
(* parse_args(): the options in order, then the key and the model *)

Defaults == [backend |-> "deepseek", model |-> "deepseek-chat", mode |-> "async",
             key |-> FALSE, threshold |-> [sched |-> 70, io |-> 70, sec |-> 80]]

Options ==
  [name : {"backend"}, value : Backends] \cup [name : {"model"}, value : TriedModels]
    \cup [name : {"mode"}, value : {"sync", "async", "override"}]
    \cup [name : {"threshold"}, value : Domains] \cup [name : {"key"}, value : {"given"}]

Applied(c, option) ==
  CASE option.name = "backend" -> [c EXCEPT !.backend = option.value,
                                            !.model = DefaultModel[option.value]]
    [] option.name = "model" -> [c EXCEPT !.model = option.value]
    [] option.name = "mode" -> [c EXCEPT !.mode = option.value]
    [] option.name = "threshold" -> [c EXCEPT !.threshold[option.value] = TriedThreshold]
    [] OTHER -> [c EXCEPT !.key = TRUE]

(* Mutant for ModelFitsBackend: a model of the other backend passes.            *)
ParsedAnyModel(options, environment) ==
  LET c == FoldLeft(Applied, Defaults, options)
  IN  [c EXCEPT !.key = @ \/ environment,
                !.model = IF \E b \in Backends : c.model \in KnownModels[b]
                          THEN c.model ELSE DefaultModel[c.backend]]

(* A key of either backend is taken from the environment, for either backend.   *)
Parsed(options, environment) ==
  LET c == FoldLeft(Applied, Defaults, options)
  IN  [c EXCEPT !.key = @ \/ environment,
                !.model = IF c.model \in KnownModels[c.backend] THEN c.model
                                                               ELSE DefaultModel[c.backend]]

TypeOK ==
  /\ settings.backend \in Backends /\ settings.key \in BOOLEAN
  /\ settings.mode \in {"sync", "async", "override"}
  /\ settings.threshold \in [Domains -> {TriedThreshold, 70, 80}]
  /\ place \in {"idle", "connect", "header", "body", "receive"}
  /\ request \in Domains /\ response \in Responses
  /\ arrived \in 0..6
  /\ outcome \in Outcomes

Silent == [status |-> 200, json |-> FALSE, decision |-> "keep",
           confidence |-> CHOOSE c \in Confidences : TRUE]
NoOutcome == [ok |-> FALSE, decision |-> "keep", confidence |-> 0, override |-> FALSE]

Init ==
  /\ \E options \in SeqOf(Options, MaxOptions), environment \in BOOLEAN :
       settings = Parsed(options, environment)
  /\ place = "idle" /\ request = "sched" /\ response = Silent /\ arrived = 0
  /\ outcome = NoOutcome

---------------------------------------------------------------------------
(* The parts of an answer *)

(* A content that is JSON has its quotes escaped in the JSON around it; what    *)
(* follows the brace starts with one, and so does the end of any content.       *)
Parts(r) ==
  <<"head", "envelope">>
    \o (IF r.json THEN <<"brace", "decision", "confidence">> ELSE <<"prose">>)
    \o <<"end">>
Quoted == {"decision", "confidence", "end"}

(* extract_content(): from the start of the content up to the first quote, an   *)
(* escaped one or not; -1 without the start or without a quote.                 *)
Extracts(parts) == Len(parts) >= 2 /\ \E i \in DOMAIN parts : parts[i] \in Quoted

Content(parts) ==
  {parts[i] : i \in {k \in 3..Len(parts) : \A q \in 3..k : parts[q] \notin Quoted}}

(* json_get_int() and json_get_string() look for a quoted key: 50 without a     *)
(* confidence; without a decision dec_str is read as it is, uninitialised.      *)
Confidence(parts, r) ==
  IF "confidence" \notin Content(parts) THEN 50
  ELSE IF r.confidence > 100 THEN 100 ELSE r.confidence

DecisionsRead(parts, r) ==
  IF "decision" \in Content(parts) THEN {r.decision} ELSE DecisionStrings

---------------------------------------------------------------------------
(* do_http_post() *)

Fail ==
  /\ place' = "idle" /\ arrived' = 0
  /\ outcome' = NoOutcome
  /\ UNCHANGED clientRest

(* Without a key nothing is asked.                                              *)
Ask(domain, r) ==
  /\ place = "idle" /\ settings.key
  /\ place' = "connect" /\ request' = domain /\ response' = r
  /\ outcome' = NoOutcome
  /\ UNCHANGED <<settings, arrived>>

Proceed(from, to) ==
  /\ place = from
  /\ place' = to
  /\ UNCHANGED <<clientRest, arrived, outcome>>

Connect == Proceed("connect", "header") \/ (place = "connect" /\ Fail)
SendHeader == Proceed("header", "body") \/ (place = "header" /\ Fail)
SendBody == Proceed("body", "receive") \/ (place = "body" /\ Fail)

Receive ==
  /\ place = "receive" /\ arrived < Len(Parts(response))
  /\ arrived' = arrived + 1
  /\ UNCHANGED <<clientRest, place, outcome>>

(* infer_worker(): the threshold of the domain.                                 *)
Override(confidence) ==
  settings.mode = "override" /\ confidence >= settings.threshold[request]

(* Closed, timed out or full; an answer cut short is judged as it is.           *)
Ended ==
  /\ place = "receive"
  /\ LET parts == SubSeq(Parts(response), 1, arrived) IN
     IF arrived = 0 \/ response.status # 200 \/ ~Extracts(parts) THEN Fail
     ELSE /\ \E decision \in DecisionsRead(parts, response) :
               outcome' = [ok |-> TRUE, decision |-> decision,
                           confidence |-> Confidence(parts, response),
                           override |-> Override(Confidence(parts, response))]
          /\ place' = "idle" /\ arrived' = 0
          /\ UNCHANGED clientRest

Next ==
  \/ \E domain \in Domains, r \in Responses : Ask(domain, r)
  \/ Connect \/ SendHeader \/ SendBody \/ Receive \/ Ended

Spec == Init /\ [][Next]_gatewayVars

---------------------------------------------------------------------------
(* Properties *)

(* Whatever options come in whatever order, the backend is asked for a model of *)
(* its own.                                                                     *)
ModelFitsBackend == settings.model \in KnownModels[settings.backend]

(* The override mode of docs/LAYER2_ARCHITECTURE.md:116: an answer whose        *)
(* confidence is above the threshold overrides layer 1.                         *)
ConfidentOverrides ==
  outcome.ok /\ settings.mode = "override" /\ response.json
    /\ response.confidence > settings.threshold[request] => outcome.override
=============================================================================
