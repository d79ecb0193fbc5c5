---------------------------- MODULE AgentService ----------------------------
(***************************************************************************)
(* How a server comes up (rustic-boot, boot.rs) and how its agents are     *)
(* built from what it read (rustic-agent, services): the providers and MCP *)
(* servers of the configuration, the agents that are registered and        *)
(* validated, then concurrent requests that build an agent, or a pipeline  *)
(* with its sub-agents, share LLM clients and call MCP tools.              *)
(*                                                                         *)
(* A request builds depth first: `todo` are the agents still to build, in  *)
(* order, each with the reference it is built for, the at-th of pipeline   *)
(* `from`.  Presets' numbers, the text of prompts and response schemas are *)
(* left out, and so is what a stage adds to its agents.                    *)
(***************************************************************************)
EXTENDS McpRegistry, FiniteSets

CONSTANTS Requests,
          AgentFiles,     \* the agents.json a server may be given
          ProviderFile,   \* providers.json: [id, enabled, key, url]
          ServerFile,     \* mcp_servers.json: [name, key, enabled]
          Environments,   \* the sets of variables that may be set
          Hosted,         \* provider ids with a client of their own
          LocalTools,     \* the tools the server is built with
          Inputs          \* [id, llm_config]; id = None: a chat without an agent

-----------------------------------------------------------------------------
(* The configuration files.  Names of tools are sequences of texts, as in  *)
(* McpRegistry; `prompt` says whether the file of the prompt can be read,  *)
(* a key or url is the variable that holds it.                             *)

Texts == {None} \cup STRING

LlmConfigs == [llm : Texts, model : Texts, preset : Texts]

AvailableAgent == [id : STRING, llm_config : {None} \cup LlmConfigs]

PipelineConfig == [type : STRING, available : Seq(AvailableAgent),
                   stages : Seq(AvailableAgent)]

ExecutionType == {"single", "pipeline", "pipeline_agent"}

AgentConfig == [id : STRING, execution : ExecutionType, prompt : BOOLEAN,
                tools : SUBSET Seq(STRING), mcp_tools : SUBSET Seq(STRING),
                llm_config : {None} \cup LlmConfigs, pipeline : {None} \cup PipelineConfig]

ProviderConfig == [id : STRING, enabled : BOOLEAN, key : Texts, url : Texts]

MCPServerConfig == [name : Servers, key : STRING, enabled : SUBSET STRING]

ASSUME FileAssumption == /\ \A f \in AgentFiles : f \in Seq(AgentConfig)
                         /\ ProviderFile \in Seq(ProviderConfig)
                         /\ ServerFile \in Seq(MCPServerConfig)
                         /\ "local" \notin Hosted

\* None is none of the errors of a build.
ASSUME ErrorsAssumption ==
  None \notin {"unknown", "circular", "unresolved", "no_provider", "no_key", "no_url"}

VARIABLES env, file,      \* what the server finds when it starts
          boot, providers, agents,
          clients, job, calls

serviceVars == <<env, file, boot, providers, agents, clients, job, calls>>
vars == <<serviceVars, mcpVars>>

-----------------------------------------------------------------------------
(* Registries and configuration. *)

Ids(as) == {as[i].id : i \in 1..Len(as)}

\* The first entry with that id.
Find(as, id) == as[SelectInSeq(as, LAMBDA a : a.id = id)]

NoLlm == [llm |-> None, model |-> None, preset |-> None]

Merge(a, b) == [x \in DOMAIN a |-> IF a[x] = None THEN b[x] ELSE a[x]]

OrDefault(llm_config) == IF llm_config = None THEN NoLlm ELSE llm_config

\* The agents a pipeline is built from; its stages are one list here.
AvailableAgents(config) ==
  IF config.pipeline.type = "dynamic" THEN config.pipeline.available ELSE config.pipeline.stages

\* The registry: the places in the file of the agents it has, pipelines last,
\* otherwise in the order of the file.
IsPipeline(i) == file[i].execution = "pipeline"

Precedes(i, j) == \/ ~ IsPipeline(i) /\ IsPipeline(j)
                  \/ (IsPipeline(i) <=> IsPipeline(j)) /\ i < j

AgentIds == {file[i].id : i \in agents}

\* find: the first with that id.
FirstOf(S) == CHOOSE i \in S : \A j \in S \ {i} : Precedes(i, j)
FindAgent(id) == file[FirstOf({i \in agents : file[i].id = id})]

-----------------------------------------------------------------------------
(* Start of the server. *)

\* Each enabled provider needs the variables it names.
EnabledProviders == SelectSeq(ProviderFile, LAMBDA p : p.enabled)
Resolved(p) == (p.key = None \/ p.key \in env) /\ (p.url = None \/ p.url \in env)

BuildResolvedProviders ==
  /\ boot = <<"providers">>
  /\ IF \A i \in 1..Len(EnabledProviders) : Resolved(EnabledProviders[i])
     THEN providers' = EnabledProviders /\ boot' = <<"mcp", 1>>
     ELSE boot' = <<"failed">> /\ UNCHANGED providers
  /\ UNCHANGED <<env, file, agents, clients, job, calls, mcpVars>>

\* One entry: skipped without its key; an error of the server ends the start.
RegisterConfigured ==
  /\ boot[1] = "mcp" /\ boot[2] <= Len(ServerFile)
  /\ LET e == ServerFile[boot[2]] IN
       \/ /\ e.key \notin env
          /\ boot' = <<"mcp", boot[2] + 1>>
          /\ UNCHANGED <<registry, definitions>>
       \/ /\ e.key \in env /\ TRUE \in Handshakes
          /\ RegisterServer(e.name)
          /\ AddDefinitions(e.name, Exposed(e.name, e.enabled))
          /\ boot' = <<"mcp", boot[2] + 1>>
       \/ /\ e.key \in env /\ FALSE \in Handshakes
          /\ boot' = <<"failed">>
          /\ UNCHANGED <<registry, definitions>>
  /\ UNCHANGED <<gen, writer, registrations>>
  /\ UNCHANGED <<env, file, providers, agents, clients, job, calls>>

\* An agent is registered when each of its `tools` is known somewhere.
KnownTools(a) == \A t \in a.tools : t \in LocalTools \/ HasTool(definitions, t)

RegisteredAgents == {i \in 1..Len(file) : KnownTools(file[i])}

\* The file of every agent's prompt must be there; a missing schema is no error.
LoadAgentsConfig == \A i \in 1..Len(file) : file[i].prompt

RegisterAgents ==
  /\ boot = <<"mcp", Len(ServerFile) + 1>>
  /\ IF LoadAgentsConfig THEN agents' = RegisteredAgents /\ boot' = <<"validate", 1>>
     ELSE boot' = <<"failed">> /\ UNCHANGED agents
  /\ UNCHANGED <<env, file, providers, clients, job, calls, mcpVars>>

\* Mutant of ValidatePipeline: the check is the other way round.
ValidateNothing(id) == agents

\* A pipeline with an available agent that is unknown now is dropped.
ValidatePipeline(id) ==
  LET p == FindAgent(id).pipeline
  IN  IF p # None /\ \E k \in 1..Len(p.available) : p.available[k].id \notin AgentIds
      THEN {i \in agents : file[i].id # id}
      ELSE agents

\* One pass: a pipeline dropped late is still named by those looked at before.
ValidateAgents ==
  /\ boot[1] = "validate"
  /\ LET i == boot[2] IN
       IF i > Len(file) THEN boot' = <<"keys">> /\ UNCHANGED agents
       ELSE /\ boot' = <<"validate", i + 1>>
            /\ agents' = IF i \in agents /\ IsPipeline(i) THEN ValidatePipeline(file[i].id)
                         ELSE agents
  /\ UNCHANGED <<env, file, providers, clients, job, calls, mcpVars>>

\* The keys of Firebase, then MongoDB: without either there is no server.
Connect ==
  /\ boot = <<"keys">>
  /\ boot' \in {<<"serving">>, <<"failed">>}
  /\ UNCHANGED <<env, file, providers, agents, clients, job, calls, mcpVars>>

Boot == \/ BuildResolvedProviders \/ RegisterConfigured \/ RegisterAgents
        \/ ValidateAgents \/ Connect

-----------------------------------------------------------------------------
(* Building an agent. *)

\* The provider of an llm, or what is missing.
ProviderError(llm) ==
  IF llm \notin Ids(providers) THEN "no_provider"
  ELSE IF llm \in Hosted /\ Find(providers, llm).key = None THEN "no_key"
  ELSE IF llm \notin Hosted /\ Find(providers, llm).url = None THEN "no_url"
  ELSE None

\* Where its requests go, and the name its client is cached under.
Endpoint(llm) == IF llm \in Hosted THEN llm ELSE Find(providers, llm).url
ClientKey(llm, model) == <<IF llm \in Hosted THEN llm ELSE "local", model>>

\* Mutant of CachedClient: an agent's new client replaces the one in the cache.
NewClient(key, client) == client

\* A client is made for every build, and kept if there is none yet.
CachedClient(key, client) == IF key \in DOMAIN clients THEN clients[key] ELSE client

BuiltAgent(r, id, llm, model, tools, defs, servers) ==
  LET key == ClientKey(llm, model)
      new == [endpoint |-> Endpoint(llm), by |-> <<r, Len(job[r].built) + 1>>]
  IN  [id |-> id, llm |-> llm, key |-> key, client |-> CachedClient(key, new),
       tools |-> tools, definitions |-> defs, registry |-> servers]

\* build_agent_for_id: the tools of the configuration that exist.
BuildAgentForId(r, config, llm, model) ==
  BuiltAgent(r, config.id, llm, model,
             config.tools \cap LocalTools,
             Restrict(definitions, config.mcp_tools \cap DOMAIN definitions),
             IF config.mcp_tools = {} THEN <<>> ELSE registry)

Fail(r, why) == job' = [job EXCEPT ![r].st = "failed", ![r].err = why]

\* A sub-agent's input: its reference, its configuration, its parent's input.
LlmOf(frame, config) ==
  IF frame.ref = None THEN frame.input
  ELSE Merge(Merge(OrDefault(frame.ref.llm_config), OrDefault(config.llm_config)),
             frame.input)

Frames(config, llm_config) ==
  LET subs == AvailableAgents(config)
  IN  [i \in 1..Len(subs) |-> [id |-> subs[i].id, ref |-> subs[i], input |-> llm_config,
                               from |-> config.id, at |-> i]]

\* A request starts: an agent's topology, or an agent that only chats.
BuildRunnable(r, in) ==
  /\ boot = <<"serving">> /\ job[r].st = "idle" /\ in.id # None
  /\ job' = [job EXCEPT ![r].st = "building", ![r].root = in.id,
                        ![r].todo = <<[id |-> in.id, ref |-> None,
                                       input |-> in.llm_config, from |-> None, at |-> 0]>>]
  /\ UNCHANGED <<env, file, boot, providers, agents, clients, calls, mcpVars>>

BuildChatAgent(r, in) ==
  /\ boot = <<"serving">> /\ job[r].st = "idle" /\ in.id = None
  /\ LET llm == in.llm_config.llm
         a   == BuiltAgent(r, None, llm, in.llm_config.model, {}, <<>>, <<>>)
     IN  IF ProviderError(llm) # None
         THEN Fail(r, ProviderError(llm)) /\ UNCHANGED clients
         ELSE /\ clients' = With(clients, a.key, a.client)
              /\ job' = [job EXCEPT ![r].st = "built", ![r].built = <<a>>]
  /\ UNCHANGED <<env, file, boot, providers, agents, calls, mcpVars>>

\* What stops the next agent of a build before its client is asked for.
BuildError(r, frame) ==
  IF frame.id \notin AgentIds THEN "unknown"
  ELSE LET config == FindAgent(frame.id)
           llm    == LlmOf(frame, config)
       IN  IF frame.id \in job[r].visited THEN "circular"
           ELSE IF config.llm_config = None THEN "unresolved"
           ELSE IF llm.llm = None \/ llm.model = None THEN "unresolved"
           ELSE IF OrDefault(config.llm_config).preset = None THEN "unresolved"
           ELSE ProviderError(llm.llm)

\* Mutant of Visit: the agents seen are forgotten when their agent is built.
VisitNothing(r, id) == job[r].visited

Visit(r, id) == job[r].visited \cup {id}

\* One agent, under the read lock of the registry; its sub-agents come next.
BuildRunnableAgent(r) ==
  /\ job[r].st = "building" /\ writer = None
  /\ LET frame  == Head(job[r].todo)
         err    == BuildError(r, frame)
     IN  IF err # None THEN Fail(r, err) /\ UNCHANGED clients
         ELSE LET config   == FindAgent(frame.id)
                  llm      == LlmOf(frame, config)
                  a        == BuildAgentForId(r, config, llm.llm, llm.model)
                  pipeline == config.execution = "pipeline"
                  todo     == (IF pipeline /\ config.pipeline # None
                               THEN Frames(config, llm) ELSE <<>>)
                              \o Tail(job[r].todo)
              IN  /\ clients' = With(clients, a.key, a.client)
                  /\ IF pipeline /\ config.pipeline = None THEN Fail(r, "no_pipeline")
                     ELSE job' = [job EXCEPT ![r].todo = todo,
                                             ![r].visited = Visit(r, frame.id),
                                             ![r].built = Append(@, a),
                                             ![r].st = IF todo = <<>> THEN "built" ELSE @]
  /\ UNCHANGED <<env, file, boot, providers, agents, calls, mcpVars>>

\* An agent of a request calls one of the tools its model was told of.
Call(r, a, name, d) ==
  /\ job[r].st = "built" /\ name \in DOMAIN a.definitions
  /\ LET of == a.definitions[name] IN
       calls' = calls \cup {[name |-> name, of |-> of,
                             answer |-> CallTool(a.registry, name, d), by |-> d,
                             lost |-> a.registry[of.server].at < gen[of.server]]}
  /\ job' = [job EXCEPT ![r].st = "called"]
  /\ UNCHANGED <<env, file, boot, providers, agents, clients, mcpVars>>

NewJob == [st |-> "idle", root |-> None, todo |-> <<>>, visited |-> {}, built |-> <<>>,
           err |-> None]

Init == /\ InitMcp
        /\ env \in Environments /\ file \in AgentFiles
        /\ boot = <<"providers">> /\ providers = <<>> /\ agents = {}
        /\ clients = <<>>
        /\ job = [r \in Requests |-> NewJob]
        /\ calls = {}

Next == \/ Boot
        \/ boot = <<"serving">> /\ NextMcp /\ UNCHANGED serviceVars
        \/ \E r \in Requests :
             \/ \E in \in Inputs : BuildRunnable(r, in) \/ BuildChatAgent(r, in)
             \/ BuildRunnableAgent(r)
             \/ \E i \in 1..Len(job[r].built) :
                  \E name \in DOMAIN job[r].built[i].definitions, d \in Deliveries :
                    Call(r, job[r].built[i], name, d)

Spec == Init /\ [][Next]_vars

-----------------------------------------------------------------------------
(* Properties. *)

BuiltAgents == UNION {Range(job[r].built) : r \in Requests}

(***************************************************************************)
(* with_client and with_local keep one client per provider and model,      *)
(* however builds interleave: agents that ask for the same one share it,   *)
(* and it talks to the provider the agent was built for, or, for a local   *)
(* model, to another local provider that was asked for the same model.     *)
(***************************************************************************)
OneClient ==
  \A a \in BuiltAgents :
    /\ clients[a.key] = a.client
    /\ \/ a.client.endpoint = Endpoint(a.llm)
       \/ /\ a.llm \notin Hosted
          /\ \E i \in 1..Len(providers) :
               /\ providers[i].id \notin Hosted \cup {a.llm}
               /\ providers[i].url = a.client.endpoint

-----------------------------------------------------------------------------
(* The agents a runnable refers to, directly or not. *)

SubAgents(id) ==
  LET a == FindAgent(id)
  IN  IF id \in AgentIds /\ a.execution = "pipeline" /\ a.pipeline # None
      THEN AvailableAgents(a) ELSE <<>>

SubIds(id) == {SubAgents(id)[k].id : k \in 1..Len(SubAgents(id))}

Mentioned(root) == {root} \cup AgentIds \cup UNION {SubIds(id) : id \in AgentIds}

\* What every set has that has the root and the sub-agents of all it has.
Reachable(root) ==
  {x \in Mentioned(root) :
     \A T \in SUBSET Mentioned(root) :
       root \in T /\ (\A id \in T : SubIds(id) \subseteq T) => x \in T}

\* The references to x from what the root reaches: the k-th of a pipeline; the
\* request itself refers to the root.
References(root, x) ==
  (IF x = root THEN {<<None, 0>>} ELSE {})
  \cup UNION {{<<id, k>> : k \in {k \in 1..Len(SubAgents(id)) : SubAgents(id)[k].id = x}} :
                id \in Reachable(root)}

(***************************************************************************)
(* build_runnable_agent builds every agent of the topology once: a build   *)
(* that succeeds holds each agent its root reaches, one that fails as      *)
(* circular has an agent that is referred to twice, and each agent has the *)
(* tools of its configuration that exist, and no others.                   *)
(***************************************************************************)
BuiltWhole ==
  \A r \in Requests :
    LET j == job[r]
    IN  j.root # None =>
          /\ j.st \in {"built", "called"} =>
               /\ Ids(j.built) = Reachable(j.root)
               /\ \A i, k \in 1..Len(j.built) : j.built[i].id = j.built[k].id => i = k
          /\ j.err = "circular" =>
               \E x \in Reachable(j.root) : \E u, v \in References(j.root, x) : u # v
          /\ \A i \in 1..Len(j.built) :
               LET config == FindAgent(j.built[i].id)
               IN  /\ j.built[i].tools \subseteq config.tools
                   /\ DOMAIN j.built[i].definitions \subseteq config.mcp_tools

(***************************************************************************)
(* Validation at start keeps requests from meeting an unknown agent: a     *)
(* build that does was asked for one, or reaches a static pipeline, whose  *)
(* stages nobody looked at, or one that names a pipeline that was          *)
(* registered and dropped after this one was looked at.                    *)
(***************************************************************************)
UnknownExplained ==
  \A r \in Requests :
    job[r].err = "unknown" =>
      LET frame == Head(job[r].todo)
      IN  \/ job[r].root \notin AgentIds
          \/ FindAgent(frame.from).pipeline.type # "dynamic"
          \/ \E i \in RegisteredAgents : IsPipeline(i) /\ file[i].id = frame.id

(***************************************************************************)
(* A tool a model was told of is called at the server and by the name it   *)
(* was registered with, and the call has the answer of that server         *)
(* whenever the answer arrives and is the first thing it sends: a session  *)
(* is refused only when the server has restarted since it was opened,      *)
(* never because another registration came between.  Everything else is an *)
(* error, never an answer.  The exception are names that are taken apart   *)
(* elsewhere than they were joined: one of the two holds a separator, or   *)
(* the server's ends in an underscore.                                     *)
(***************************************************************************)
Separable(s, t) == /\ \A i \in 1..Len(s) : ~ SeparatorAt(s, i)
                   /\ \A i \in 1..Len(t) : ~ SeparatorAt(t, i)
                   /\ s # <<>> => s[Len(s)] # Underscore

Arrives(d) == /\ d.sent = "yes" /\ d.status \in 200..299 /\ d.whole
              /\ \E i \in DOMAIN d.lines : /\ d.lines[i] = "answer"
                                           /\ \A j \in 1..(i - 1) : d.lines[j] = "event"

CallsReach ==
  \A c \in calls :
    Separable(c.of.server, c.of.tool) =>
      IF Arrives(c.by) /\ ~ (c.lost /\ c.of.server \notin Stateless)
      THEN c.answer = <<"called", c.of.server, c.of.tool>>
      ELSE c.answer[1] = "failed"
=============================================================================
