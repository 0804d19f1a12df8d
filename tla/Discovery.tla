----------------------------- MODULE Discovery -----------------------------
(***************************************************************************)
(* Permission-aware discovery: GET /mcp/tools, POST /mcp/tools/search and  *)
(* GET /mcp/servers (agentid/gateway/mcp/discovery.py,                     *)
(* agentid/registry/tools.py, agentid/gateway/api/mcp.py).                 *)
(*                                                                         *)
(* A request reads the registry twice, first for what the caller may call  *)
(* and then for what answers the query.  How well a tool matches a query   *)
(* is left out: `relevant` is the set of tools that score high enough.     *)
(* The cut at `limit`, after ranking, is left out too.                     *)
(***************************************************************************)
EXTENDS Authorization

\* list_tools() with enabled_only: the server is not looked at.
list_tools == {t \in Tools : tools[t] # None /\ tools[t].enabled}

\* permitted_tool_names(): the engine decides on each, with no service account
\* requested.
permitted_tool_names(ctx) ==
  {t \in list_tools : authorize_tool(ctx, t, None).effect = "allow"}

search_tools_EmptyIsUnfiltered(permitted, servers, relevant) ==
  {t \in list_tools \intersect relevant :
     /\ ToolServer[t] \in enabled
     /\ servers # {} => ToolServer[t] \in servers
     /\ permitted # {} => t \in permitted}

search_tools_AnyServer(permitted, servers, relevant) ==
  {t \in list_tools \intersect relevant :
     /\ servers # {} => ToolServer[t] \in servers
     /\ t \in permitted}

\* search_tools(): an empty filter of servers is no filter, an empty set of
\* permitted names is one.
search_tools(permitted, servers, relevant) ==
  {t \in list_tools \intersect relevant :
     /\ ToolServer[t] \in enabled
     /\ servers # {} => ToolServer[t] \in servers
     /\ t \in permitted}

\* discover(): what is hidden is counted over the whole catalog.
discover(ctx, servers, relevant) ==
  [matches      |-> search_tools(permitted_tool_names(ctx), servers, relevant),
   filtered_out |-> Cardinality(list_tools) - Cardinality(permitted_tool_names(ctx))]

\* GET /mcp/servers: the enabled servers with a tool to show, each with the
\* number of its tools.
listed_servers(ctx) ==
  LET shown == discover(ctx, {}, Tools).matches
  IN  {[name |-> s, tool_count |-> Cardinality({t \in shown : ToolServer[t] = s})] :
         s \in enabled \intersect {ToolServer[t] : t \in shown}}

----------------------------------------------------------------------------
\* Properties.

\* What the documented rules let the caller call without naming a service account.
Callable(ctx) ==
  {t \in Tools : tools[t] # None /\ \E p \in Principals : MayRunAs(ctx, t, None, p)}

\* Discovery shows exactly the callable tools that match, lists exactly the
\* servers that have one, and its counts add up: nobody is shown a tool that a
\* call would be refused, nor misses one, whatever is empty or disabled
\* (registry/tools.py: "returns only what the caller could actually invoke";
\* gateway/api/mcp.py: "Servers that expose at least one tool this caller may
\* invoke").
DiscoveryShowsTheCallable ==
  \A ctx \in Contexts :
    /\ \A servers \in SUBSET Servers, relevant \in SUBSET Tools :
         discover(ctx, servers, relevant).matches =
           {t \in Callable(ctx) \intersect relevant :
              servers = {} \/ ToolServer[t] \in servers}
    /\ {s.name : s \in listed_servers(ctx)} = {ToolServer[t] : t \in Callable(ctx)}

\* Administrators may change the registry between the two reads: what is shown
\* was callable at the first, and is registered and enabled, with its server,
\* at the second (mcp/discovery.py, discover()).
NothingWithdrawnIsShown ==
  [][ registry' # registry =>
        \A ctx \in Contexts : \A permitted \in {permitted_tool_names(ctx)} :
          \A t \in search_tools(permitted, {}, Tools)' :
            /\ t \in Callable(ctx)
            /\ tools'[t].enabled /\ ToolServer[t] \in registered' \intersect enabled'
    ]_policyVars

=============================================================================
