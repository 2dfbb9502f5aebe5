------------------------------- MODULE Params -------------------------------
(***************************************************************************)
(* What Dispatch does before it calls the runtime: it reads the params of  *)
(* the agent from its schema, resolves them from the step, builds the user *)
(* message, and resolves the params of a tool server from the agent's.     *)
(* A value is known by its source: a literal text, a variable of the       *)
(* environment that is set or is not, a number, a template that names an   *)
(* agent param or is not supported, or nothing.                            *)
(***************************************************************************)
EXTENDS FiniteSets

CONSTANTS
  AgentNames,   \* names of agent params
  StartsWith,   \* <<m, n>>: the name m starts with n
  Agents,       \* schemas of agents and params of steps
  Servers,      \* the param of the server, what the agent file gives it, auth.secret
  Prompts       \* prompt.user is given, the agent params in it and in prompt.reflect

Sources    == {"absent", "text", "env", "unset", "number"}
SchemaProp == [required : BOOLEAN, secret : BOOLEAN, default : {"absent", "text", "env", "unset"}]
References == {"absent", "text", "env", "unset", "unsupported"} \cup AgentNames


ASSUME ParamsAssumption ==
  /\ \A n \in AgentNames : <<n, n>> \in StartsWith
  /\ StartsWith \subseteq AgentNames \X AgentNames
  /\ \A a \in Agents : /\ DOMAIN a.schema \subseteq AgentNames
                       /\ \A n \in DOMAIN a.schema : a.schema[n] \in SchemaProp
                       /\ a.step \in [AgentNames -> Sources]
  /\ Servers \subseteq [secret : BOOLEAN, default : {"absent", "text", "env", "unset", "empty"},
                        ref : References, auth : References]
  /\ Prompts \subseteq [given : BOOLEAN, user : SUBSET AgentNames, reflect : SUBSET AgentNames]
  /\ \A p \in Prompts : ~p.given => p.user = {}

VARIABLES
  stage,      \* "agent", "message", "server", "dispatched" or "refused"
  agent,      \* the schema of the agent and the params of the step
  server,     \* the param of the server and what the agent file gives it
  prompt,     \* the prompts of the agent
  resolved,   \* resolved agent params: the source of each
  message,    \* the agent params in the user message
  forwarded   \* the source of the server param: "none" or as resolved

paramVars == <<stage, agent, server, prompt, resolved, message, forwarded>>

ParamsInit ==
  /\ stage = "agent"
  /\ agent \in Agents /\ server \in Servers /\ prompt \in Prompts
  /\ resolved = <<>>
  /\ message = {}
  /\ forwarded = "none"

-----------------------------------------------------------------------------

declared    == DOMAIN agent.schema
secret(n)   == n \in declared /\ agent.schema[n].secret

\* ParseParamsSchema: an optional param without a default has an empty one.
Default(prop) ==
  IF prop.default = "absent" /\ ~prop.required THEN "empty" ELSE prop.default

\* ResolveAgentParams fails: a default is looked up before it is replaced.
AgentParamRefused(n) ==
  LET given == agent.step[n]  default == Default(agent.schema[n])
  IN \/ default = "unset"
     \/ given \in {"number", "unset"}
     \/ given = "text" /\ secret(n)
     \/ given = "absent" /\ default = "absent"

AgentParam(n) ==
  IF agent.step[n] # "absent" THEN agent.step[n] ELSE Default(agent.schema[n])

ResolveAgentParams ==
  /\ stage = "agent"
  /\ IF \E n \in declared : AgentParamRefused(n)
       THEN stage' = "refused" /\ UNCHANGED resolved
       ELSE stage' = "message" /\ resolved' = [n \in declared |-> AgentParam(n)]
  /\ UNCHANGED <<agent, server, prompt, message, forwarded>>

\* Neither prompt may name a param that has no value, and prompt.user none that
\* starts with the name of a secret one (strings.Contains).  Without prompt.user
\* all params but the secret ones are the message, as JSON.
BuildUserMessage ==
  /\ stage = "message"
  /\ IF \/ ~(prompt.user \cup prompt.reflect) \subseteq declared
        \/ \E n \in prompt.user, m \in declared : secret(m) /\ <<n, m>> \in StartsWith
       THEN stage' = "refused" /\ UNCHANGED message
       ELSE /\ stage' = "server"
            /\ message' = IF prompt.given THEN prompt.user
                          ELSE {n \in declared : ~secret(n)}
  /\ UNCHANGED <<agent, server, prompt, resolved, forwarded>>

\* Mutant: the marks are not compared.
ServerParamRefusedUnmarked ==
  \/ server.default = "unset"
  \/ server.ref \in {"unset", "unsupported"}
  \/ server.ref \in AgentNames \ declared
  \/ server.ref = "absent" /\ server.default = "absent"

\* ResolveParamRef, and what Dispatch says of its result: a template must name a
\* secret param, a text is taken as it is.
AuthRefused ==
  \/ server.auth = "unsupported"
  \/ server.auth \in AgentNames /\ ~secret(server.auth)

\* ResolveServerParams fails; a literal or a variable is not asked for a mark.
ServerParamRefused ==
  \/ server.default = "unset"
  \/ server.ref \in {"unset", "unsupported"}
  \/ server.ref \in AgentNames \ declared
  \/ server.ref \in declared /\ server.secret /\ ~secret(server.ref)
  \/ server.ref = "absent" /\ server.default = "absent"

ServerParam ==
  IF server.ref \in declared THEN resolved[server.ref]
  ELSE IF server.ref # "absent" THEN server.ref ELSE server.default

ResolveServerParams ==
  /\ stage = "server"
  /\ IF AuthRefused \/ ServerParamRefused
       THEN stage' = "refused" /\ UNCHANGED forwarded
       ELSE stage' = "dispatched" /\ forwarded' = ServerParam
  /\ UNCHANGED <<agent, server, prompt, resolved, message>>

ParamsNext == ResolveAgentParams \/ BuildUserMessage \/ ResolveServerParams

-----------------------------------------------------------------------------

\* What a dispatch that goes ahead has resolved.  No param is without a value or
\* stands for a variable that is not set, and the step goes before the default.
\* The marks are compared where a param refers to another: a secret agent param
\* is not in the user message, and a secret server param or auth.secret that
\* names an agent param names a secret one.  A secret may still be a literal, if
\* a file says so, as a default or as the value of a server param, but the text
\* that a step gives never becomes one.
DispatchResolved ==
  stage = "dispatched" =>
    /\ \A n \in declared :
         /\ resolved[n] \in {"text", "env", "empty"}
         /\ agent.step[n] # "absent" => resolved[n] = agent.step[n]
         /\ secret(n) =>
              n \notin message /\ (resolved[n] = "text" => agent.step[n] = "absent")
    /\ forwarded \in {"text", "env", "empty"}
    /\ server.secret /\ server.ref \in AgentNames =>
         /\ secret(server.ref)
         /\ forwarded = "text" => agent.step[server.ref] = "absent"
    /\ server.auth \in AgentNames => secret(server.auth)
    /\ prompt.given => message = prompt.user
=============================================================================
