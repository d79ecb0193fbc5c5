--------------------------- MODULE MCAgentService ---------------------------
(***************************************************************************)
(* AgentService for TLC: see AgentService.cfg.  Eight configurations of    *)
(* agents: a sound dynamic pipeline, one agent used by two stages, a       *)
(* pipeline of pipelines that names itself, pipelines whose sub-agents are *)
(* unknown or dropped, and agents whose settings or files are incomplete.  *)
(***************************************************************************)
EXTENDS AgentService

CONSTANTS q1, q2

Llm(l, m)  == [llm |-> l, model |-> m, preset |-> None]
Config     == [llm |-> None, model |-> None, preset |-> "balanced"]
Use(id)    == [id |-> id, llm_config |-> None]
UseOn(id, l) == [id |-> id, llm_config |-> Llm(l, "m")]

\* The last is the name of a tool of web, and of one of web_.
Search   == Namespaced(<<"kb">>, <<"search">>)
Advanced == Namespaced(<<"kb">>, <<"search">> \o Separator \o <<"advanced">>)
Fetch    == Namespaced(<<"web">>, <<"_", "fetch">>)

Single(id, tools, mcp, llm) ==
  [id |-> id, execution |-> "single", prompt |-> TRUE, tools |-> tools, mcp_tools |-> mcp,
   llm_config |-> llm, pipeline |-> None]

Pipe(id, type, available, stages) ==
  [id |-> id, execution |-> "pipeline", prompt |-> TRUE, tools |-> {}, mcp_tools |-> {},
   llm_config |-> Config,
   pipeline |-> [type |-> type, available |-> available, stages |-> stages]]

Dynamic(id, subs) == Pipe(id, "dynamic", subs, <<>>)
Static(id, stages) == Pipe(id, "static", <<>>, stages)

A == Single("a", {<<"clock">>}, {Search, Advanced, Fetch}, Config)
B == [Single("b", {Search}, {}, Config) EXCEPT !.execution = "pipeline_agent"]
Odd == Single("odd", {<<"nowhere">>}, {}, Config)

MCAgentFiles ==
  {<<Dynamic("p", <<UseOn("b", "ollama"), Use("a")>>), A, B>>,
   <<Static("p", <<Use("a"), Use("a")>>), A>>,
   <<Dynamic("p", <<Use("q")>>), Dynamic("q", <<Use("p")>>), A>>,
   <<Dynamic("p", <<Use("q")>>), Dynamic("q", <<Use("gone")>>), A>>,
   <<Static("p", <<Use("odd"), Use("a")>>), A, Odd>>,
   <<Dynamic("p", <<Use("a"), Use("odd")>>), A, Odd>>,
   <<[Single("a", {}, {}, Config) EXCEPT !.prompt = FALSE]>>,
   <<[Dynamic("p", <<>>) EXCEPT !.pipeline = None], Single("a", {}, {}, None)>>}

MCProviderFile ==
  <<[id |-> "openai", enabled |-> TRUE, key |-> "OPENAI", url |-> None],
    [id |-> "ollama", enabled |-> TRUE, key |-> None, url |-> "OLLAMA"],
    [id |-> "vllm", enabled |-> TRUE, key |-> None, url |-> "VLLM"],
    [id |-> "groq", enabled |-> FALSE, key |-> "GROQ", url |-> None]>>

MCServerFile == <<[name |-> <<"kb">>, key |-> "KB", enabled |-> {"search", "advanced"}],
                  [name |-> <<"web">>, key |-> "WEB", enabled |-> {}],
                  [name |-> <<"web", "_">>, key |-> "WEB_", enabled |-> {}]>>

MCEnvironments == {{"OPENAI", "OLLAMA", "VLLM", "KB", "WEB"}, {"OPENAI", "OLLAMA", "VLLM"},
                   {"OPENAI", "OLLAMA", "VLLM", "WEB", "WEB_"},
                   {"OPENAI", "KB", "WEB", "WEB_"}}

MCToolsOf == <<"kb">> :> {<<"search">>, <<"search">> \o Separator \o <<"advanced">>, <<"drop">>}
             @@ <<"web">> :> {<<"_", "fetch">>}
             @@ <<"web", "_">> :> {<<"fetch">>}
MCStateless == {<<"web">>, <<"web", "_">>}
MCLocalTools == {<<"clock">>}
MCEndsWith == {<<<<"search">>, "search">>, <<<<"search">> \o Separator \o <<"advanced">>, "advanced">>}

Reply(sent, status, lines, whole) ==
  [sent |-> sent, status |-> status, events |-> Len(lines) > 1, lines |-> lines,
   whole |-> whole]

\* An answer, alone, in a stream, or behind a notification; one that is cut off;
\* a server that is busy; none at all.
MCDeliveries == {Reply("yes", 200, <<"answer">>, TRUE),
                 Reply("yes", 200, <<"event", "answer">>, TRUE),
                 Reply("yes", 200, <<"event", "other", "event", "answer">>, TRUE),
                 Reply("yes", 200, <<"answer">>, FALSE),
                 Reply("yes", 503, <<"other">>, TRUE),
                 Reply("connect", 0, <<>>, TRUE)}

MCInputs == {[id |-> "p", llm_config |-> Llm("vllm", "m")],
             [id |-> "p", llm_config |-> Llm("openai", None)],
             [id |-> "a", llm_config |-> Llm("openai", "m")],
             [id |-> None, llm_config |-> Llm("ollama", "m")],
             [id |-> None, llm_config |-> Llm("groq", "m")]}
=============================================================================
