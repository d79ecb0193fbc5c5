----------------------------- MODULE McpRegistry -----------------------------
(***************************************************************************)
(* The registry of MCP servers (rustic-agent, tools/mcp.rs): the sessions  *)
(* opened with them, the tools they were registered with and how a name    *)
(* given to a model is taken apart again to reach the server and the tool. *)
(*                                                                         *)
(* A name is a sequence of underscores and of texts without any: where the *)
(* underscores are decides where it is taken apart.  `gen[s]` counts       *)
(* the lives of server s: a session opened in one of them is unknown in    *)
(* the next.  `writer` is the holder of the write lock of the shared       *)
(* registry, which a registration keeps across its requests.               *)
(***************************************************************************)
EXTENDS HttpClient

CONSTANTS ToolsOf,        \* the tools each server lists
          Stateless,      \* the servers that hand out no session
          EndsWith,       \* <<t, u>>: the name t ends with the text u
          Deliveries,     \* what may become of an exchange with a server
          MaxRestarts, MaxRegistrations, None

Servers == DOMAIN ToolsOf

ASSUME McpAssumption == /\ Stateless \subseteq Servers
                        /\ MaxRestarts \in Nat /\ MaxRegistrations \in Nat
                        /\ None \notin Servers /\ Deliveries \subseteq Replies

ASSUME NamesAssumption ==
  \A s \in Servers : s \in Seq(STRING) /\ ToolsOf[s] \subseteq Seq(STRING)

VARIABLES gen, registry, definitions, writer, registrations

mcpVars == <<gen, registry, definitions, writer, registrations>>

\* g where it is defined, else f.
Overlaid(f, g) == [y \in DOMAIN f \cup DOMAIN g |-> IF y \in DOMAIN g THEN g[y] ELSE f[y]]

\* f with x |-> v, whether or not x was there.
With(f, x, v) == Overlaid(f, [y \in {x} |-> v])

InitMcp == /\ gen = [s \in Servers |-> 1]
           /\ registry = <<>>
           /\ definitions = <<>>
           /\ writer = None
           /\ registrations = 0

-----------------------------------------------------------------------------
(* Registering a server and its tools. *)

\* What a server answers to a request that carries a session.
Accepts(s, session) == s \in Stateless \/ session = gen[s]

Served(client, d) ==
  IF d.status \in 200..299 /\ ~ Accepts(client.server, client.session)
  THEN [d EXCEPT !.status = 404] ELSE d

\* initialize, initialized, tools/list: the first that fails ends it.
Handshakes == {i.ok /\ n.ok /\ l.ok : i \in {PostRequest(d, "session") : d \in Deliveries},
                                     n \in {PostNotification(d) : d \in Deliveries},
                                     l \in {PostRequest(d, "tools") : d \in Deliveries}}

\* Mutant of Initialized: the session the server opened is not kept.
SessionDropped(s) == [server |-> s, session |-> None, at |-> gen[s]]

\* A client after its handshake: the session is the one the server opened; `at`
\* only remembers in which of the server's lives that was.
Initialized(s) == [server |-> s, session |-> IF s \in Stateless THEN None ELSE gen[s],
                   at |-> gen[s]]

\* One entry per name: a server registered again replaces its client.
RegisterServer(s) == registry' = With(registry, s, Initialized(s))

Underscore == "_"
Separator == <<Underscore, Underscore, Underscore>>

\* The name a tool has for the models: {server}___{tool}.
Namespaced(s, t) == s \o Separator \o t

AddDefinition(defs, s, t) == With(defs, Namespaced(s, t), [server |-> s, tool |-> t])

\* One after the other; no two tools of a server have the same name.
AddDefinitions(s, tools) ==
  LET added == [n \in {Namespaced(s, t) : t \in tools} |->
                  [server |-> s, tool |-> CHOOSE t \in tools : Namespaced(s, t) = n]]
  IN  definitions' = Overlaid(definitions, added)

\* What a server's entry exposes: everything, or what ends with an enabled name.
Exposed(s, enabled) ==
  IF enabled = {} THEN ToolsOf[s]
  ELSE {t \in ToolsOf[s] : \E u \in enabled : <<t, u>> \in EndsWith}

HasTool(defs, name) == name \in DOMAIN defs

-----------------------------------------------------------------------------
(* Calling a tool by the name its definition has. *)

SeparatorAt(name, i) == i + 2 <= Len(name) /\ \A k \in 0..2 : name[i + k] = Underscore

\* Where a part that begins at `from` ends: before the next separator, or with the name.
EndsBefore(name, from) == Min({i \in from..Len(name) : SeparatorAt(name, i)} \cup {Len(name) + 1})

\* split("___"): the first and the second part, whatever follows.
ServerPart(name) == SubSeq(name, 1, EndsBefore(name, 1) - 1)
ToolPart(name) ==
  LET from == EndsBefore(name, 1) + 3 IN SubSeq(name, from, EndsBefore(name, from) - 1)

\* A tool the server does not have is an answer without a result.
CallTool(clients, name, d) ==
  LET s == ServerPart(name)  t == ToolPart(name)
  IN  IF s \notin DOMAIN clients THEN <<"not registered">>
      ELSE LET outcome == PostRequest(Served(clients[s], d), <<"called", s, t>>)
           IN  IF ~ outcome.ok THEN <<"failed", outcome.value>>
               ELSE IF t \notin ToolsOf[s] THEN <<"failed", "Other">>
               ELSE outcome.value

-----------------------------------------------------------------------------
(* A user of the library that registers while agents are built. *)

\* with_mcp_registry: the lock is taken first and kept to the end.
LockRegistry(s) ==
  /\ writer = None /\ registrations < MaxRegistrations
  /\ writer' = s
  /\ registrations' = registrations + 1
  /\ UNCHANGED <<gen, registry, definitions>>

\* Answered, the client is kept but none of its tools; or an error drops it.
WithMcpRegistry ==
  /\ writer # None
  /\ writer' = None
  /\ \E ok \in Handshakes : IF ok THEN RegisterServer(writer) ELSE UNCHANGED registry
  /\ UNCHANGED <<gen, definitions, registrations>>

ToolGet(client, t, d) == PostRequest(Served(client, d), t)

\* register_tool asks the server that is registered; a refusal adds nothing.
WithMcpTool(s, t) ==
  /\ writer = None
  /\ s \in DOMAIN registry /\ t \in ToolsOf[s]
  /\ \E d \in Deliveries : ToolGet(registry[s], t, d).ok
  /\ registrations < MaxRegistrations
  /\ registrations' = registrations + 1
  /\ definitions' = AddDefinition(definitions, s, t)
  /\ UNCHANGED <<gen, registry, writer>>

\* External: a server comes back without the sessions of its last life.
Restart(s) ==
  /\ gen[s] <= MaxRestarts
  /\ gen' = [gen EXCEPT ![s] = @ + 1]
  /\ UNCHANGED <<registry, definitions, writer, registrations>>

NextMcp == \/ WithMcpRegistry
           \/ \E s \in Servers : \/ LockRegistry(s)
                                 \/ \E t \in ToolsOf[s] : WithMcpTool(s, t)
                                 \/ Restart(s)
=============================================================================
