---------------------------- MODULE SkillRouter ----------------------------
(* The skill router and the MCP core it calls its tools through                 *)
(* (layer2/src/ai_skill_router.c, layer2/skills/skill_registry.c,               *)
(* layer2/mcp/ai_mcp_core.c).  A request is the set of the match rules whose    *)
(* keyword it contains; prompts, parameters and the texts tools return are left *)
(* out.  Both are called by one task.                                           *)
EXTENDS Integers, SequencesExt

CONSTANTS
  MaxKeywords,  \* bound: keywords in a request
  Removable     \* bound: tools that mcp_tool_unregister() may remove

SkillRouterAssumption == MaxKeywords \in Nat

VARIABLES
  mcpTools,  \* mcp_tools, by name; none before skill_router_init()
  weights,   \* the weights of deepseek_cfg and kimi_cfg
  last,      \* the dispatch under way: its request, category, tool and decision
  reply      \* the kind of the last answer of mcp_handle_message()

routerVars == <<mcpTools, weights, last, reply>>

Backends == {"deepseek", "kimi"}
Categories == {"scheduling", "io", "security", "memory", "system", "code", "analysis",
               "orchestrate"}
Rule(category, priority) == [category |-> category, priority |-> priority]

(* match_rules, in order; BlockRule is the keyword that BlockIpRule contains.   *)
MatchRules ==
  LET of(category, priorities) == [i \in DOMAIN priorities |-> Rule(category, priorities[i])]
  IN  of("scheduling", <<90, 60, 50, 70, 80, 85>>)
      \o of("io", <<80, 75, 70, 65, 60, 55, 50, 65>>)
      \o of("security", <<90, 95, 95, 90, 80, 85, 70, 85, 60>>)
      \o of("memory", <<80, 85, 80, 90>>) \o of("system", <<50, 70, 65>>)
      \o of("code", <<80, 70, 60, 50>>) \o of("analysis", <<60, 50>>)
      \o of("orchestrate", <<70, 60>>)
BlockRule == 19
BlockIpRule == 20

Requests ==
  {r \in {{}} \cup {Range(f) : f \in [1..MaxKeywords -> DOMAIN MatchRules]} :
     BlockIpRule \in r => BlockRule \in r}

(* tool_mappings, in order.                                                     *)
ToolMappings ==
  << <<"scheduling", "sched_analyze">>, <<"io", "io_inspect">>, <<"io", "netstat_query">>,
     <<"io", "disk_io_analyze">>, <<"security", "security_scan">>,
     <<"security", "network_block">>, <<"memory", "memory_predict">>,
     <<"system", "sys_info">>, <<"code", "sys_info">> >>

(* The tools skill_registry_init() registers.                                   *)
AllTools == {ToolMappings[i][2] : i \in DOMAIN ToolMappings} \cup {"process_kill", "cpu_pin"}
NoTool == "none"

Weights(sched, io, sec, mem, code, orch) ==
  [sched |-> sched, io |-> io, sec |-> sec, mem |-> mem, code |-> code, orch |-> orch]
DefaultWeights == [deepseek |-> Weights(70, 50, 40, 65, 80, 30),
                   kimi |-> Weights(30, 50, 60, 35, 20, 70)]
EvenWeights == Weights(50, 50, 50, 50, 50, 50)  \* bound: the other weights tried

Models == {"deepseek-chat", "moonshot-v1-8k", "deepseek-coder", "moonshot-v1-32k"}
Decision == [backend : Backends, model : Models]
Replies == {"none", "result", "tool_error", "invalid_request", "no_method", "no_name"}

TypeOK ==
  /\ mcpTools \subseteq AllTools
  /\ DOMAIN weights = Backends
  /\ \A b \in Backends : weights[b] \in {DefaultWeights[b], EvenWeights}
  /\ last.request \subseteq DOMAIN MatchRules /\ last.category \subseteq Categories
  /\ last.tool \in AllTools \cup {NoTool}
  /\ last.decision \in Decision /\ last.core \in Decision
  /\ reply \in Replies

---------------------------------------------------------------------------
(* skill_analyze(): the rules are tried in order, the best priority wins and    *)
(* equal ones are joined *)

(* Mutant for AnalyzeKeepsBest: an equal priority replaces what was found.      *)
MatchedLast(rule, best) ==
  IF rule.priority >= best.priority
  THEN [categories |-> {rule.category}, priority |-> rule.priority] ELSE best

Matched(rule, best) ==
  IF rule.priority > best.priority
  THEN [categories |-> {rule.category}, priority |-> rule.priority]
  ELSE IF rule.priority = best.priority
       THEN [best EXCEPT !.categories = @ \cup {rule.category}] ELSE best

(* The rule at i is tried; the request contains its keyword, or it does not.    *)
Tried(request, best, i) == IF i \in request THEN Matched(MatchRules[i], best) ELSE best

Analyze(request) ==
  LET found == FoldLeftDomain(LAMBDA best, i : Tried(request, best, i),
                              [categories |-> {}, priority |-> 0], MatchRules).categories
  IN  IF found = {} THEN {"system"} ELSE found

---------------------------------------------------------------------------
(* skill_route() *)

WeightOf == [scheduling |-> "sched", io |-> "io", security |-> "sec", memory |-> "mem",
             code |-> "code", analysis |-> "io", orchestrate |-> "orch", system |-> "sched"]

(* Mutant for CoderStaysWithDeepSeek: the score of code is forgotten.           *)
ScoreWithoutCode(b, category) ==
  MapThenSumSet(LAMBDA c : weights[b][WeightOf[c]], category \ {"code"})

Score(b, category) == MapThenSumSet(LAMBDA c : weights[b][WeightOf[c]], category)

(* The models the categories ask for replace the one of the backend, whichever  *)
(* backend it is; orchestration has the last word.                              *)
Chosen(deepseek, category) ==
  [backend |-> IF deepseek THEN "deepseek" ELSE "kimi",
   model |-> CASE "orchestrate" \in category -> "moonshot-v1-32k"
               [] "orchestrate" \notin category /\ "code" \in category -> "deepseek-coder"
               [] OTHER -> IF deepseek THEN "deepseek-chat" ELSE "moonshot-v1-8k"]

Route(category) == Chosen(Score("deepseek", category) >= Score("kimi", category), category)

(* The MCP core has a skill_route() of its own, with fixed weights.             *)
CoreWeights == [deepseek |-> [code |-> 30, scheduling |-> 20, security |-> 10, memory |-> 15,
                              orchestrate |-> 5],
                kimi |-> [code |-> -10, scheduling |-> 10, security |-> 20, memory |-> 5,
                          orchestrate |-> 25]]
CoreScore(b, category) ==
  LET sum == 50 + MapThenSumSet(LAMBDA c : CoreWeights[b][c],
                                category \cap DOMAIN CoreWeights[b])
  IN  IF sum > 100 THEN 100 ELSE sum
CoreRoute(category) ==
  Chosen(CoreScore("deepseek", category) >= CoreScore("kimi", category), category)

---------------------------------------------------------------------------
(* Operations; one task calls them, and takes the result of a call before it    *)
(* makes another *)

(* mcp_call_tool(): none of the registered tools has a handler, and then every  *)
(* call succeeds.                                                               *)
CallTool(tool) == tool \in mcpTools

(* The tools of the categories are tried in order until one succeeds.           *)
ToolFor(category) ==
  LET usable == {i \in DOMAIN ToolMappings :
                   ToolMappings[i][1] \in category /\ CallTool(ToolMappings[i][2])}
  IN  IF usable = {} THEN NoTool
      ELSE ToolMappings[CHOOSE i \in usable : \A j \in usable : i <= j][2]

Dispatched(request) ==
  LET category == Analyze(request)
  IN  [request |-> request, category |-> category, tool |-> ToolFor(category),
       decision |-> Route(category), core |-> CoreRoute(category)]

NoDispatch == [request |-> {}, category |-> {}, tool |-> NoTool,
               decision |-> Chosen(TRUE, {}), core |-> Chosen(TRUE, {})]

Init ==
  /\ mcpTools = {} /\ reply = "none"
  /\ weights = DefaultWeights
  /\ last = NoDispatch

Idle == last = NoDispatch /\ reply = "none"

RouterInit ==
  /\ Idle /\ mcpTools = {}
  /\ mcpTools' = AllTools
  /\ UNCHANGED <<weights, last, reply>>

ToolUnregister(tool) ==
  /\ Idle /\ tool \in mcpTools
  /\ mcpTools' = mcpTools \ {tool}
  /\ UNCHANGED <<weights, last, reply>>

SetWeights(b, w) ==
  /\ Idle
  /\ weights' = [weights EXCEPT ![b] = w]
  /\ UNCHANGED <<mcpTools, last, reply>>

Dispatch(request) ==
  /\ Idle
  /\ last' = Dispatched(request)
  /\ UNCHANGED <<mcpTools, weights, reply>>

Taken ==
  /\ ~Idle
  /\ last' = NoDispatch /\ reply' = "none"
  /\ UNCHANGED <<mcpTools, weights>>

(* mcp_handle_message().  json_get_str() starts to read a string one character  *)
(* behind its opening quote, so the method, and the name of a tool, are what    *)
(* the buffer on the stack happened to hold.                                    *)
Answers(hasMethod, hasName) ==
  IF ~hasMethod THEN {"no_method"}
  ELSE {"result", "no_method"}
         \cup (IF hasName THEN {"tool_error"} ELSE {"no_name"})

HandleMessage(jsonrpc, hasMethod, hasName) ==
  /\ Idle
  /\ reply' \in IF jsonrpc THEN Answers(hasMethod, hasName) ELSE {"invalid_request"}
  /\ UNCHANGED <<mcpTools, weights, last>>

Next ==
  \/ RouterInit \/ Taken
  \/ \E tool \in Removable : ToolUnregister(tool)
  \/ \E b \in Backends : \E w \in {DefaultWeights[b], EvenWeights} : SetWeights(b, w)
  \/ \E request \in Requests : Dispatch(request)
  \/ \E jsonrpc, hasMethod, hasName \in BOOLEAN : HandleMessage(jsonrpc, hasMethod, hasName)

Spec == Init /\ [][Next]_routerVars

---------------------------------------------------------------------------
(* Properties *)

(* The rules tried one after the other leave exactly the categories of the best *)
(* priority the request matches, all of them when several tie.                  *)
AnalyzeKeepsBest ==
  last.request # {} =>
    LET best == Max({MatchRules[i].priority : i \in last.request})
    IN  last.category = {MatchRules[i].category :
                           i \in {j \in last.request : MatchRules[j].priority = best}}

(* The model is replaced without a look at the backend that was chosen.  With   *)
(* the default weights, and with those of the MCP core, no mix of categories    *)
(* makes Kimi the backend of the DeepSeek coder.  Nothing like it holds of the  *)
(* model that orchestration asks for: see ModelOfBackend.                       *)
CoderStaysWithDeepSeek ==
  /\ weights = DefaultWeights /\ last.decision.model = "deepseek-coder"
       => last.decision.backend = "deepseek"
  /\ last.core.model = "deepseek-coder" => last.core.backend = "deepseek"

BackendModels == [deepseek |-> {"deepseek-chat", "deepseek-coder"},
                  kimi |-> {"moonshot-v1-8k", "moonshot-v1-32k"}]

(* What layer2/config/layer2.yaml says of the models: each belongs to one of    *)
(* the backends, so with the default weights the skill router sends a request   *)
(* to the backend that has the model it names.                                  *)
ModelOfBackend ==
  weights = DefaultWeights => last.decision.model \in BackendModels[last.decision.backend]
=============================================================================
