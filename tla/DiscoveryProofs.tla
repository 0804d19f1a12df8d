-------------------------- MODULE DiscoveryProofs --------------------------
(***************************************************************************)
(* Discovery against the decision function: for every policy and caller it *)
(* shows what could be called, and nothing withdrawn meanwhile.            *)
(***************************************************************************)
EXTENDS Discovery, AuthorizationProofs

\* The engine's answers over the catalog are the documented rules.
LEMMA PermittedIsCallable ==
  ASSUME PolicyTypeOK, NEW ctx \in Contexts
  PROVE  permitted_tool_names(ctx) = Callable(ctx)
<1>1. None \in Requests
  BY DEF Requests
<1>2. ASSUME NEW t \in permitted_tool_names(ctx)
      PROVE  t \in Callable(ctx)
  <2>1. t \in Tools /\ tools[t] # None /\ Allowed(ctx, t, None)
    BY DEF permitted_tool_names, list_tools, Allowed
  <2> QED BY <1>1, <2>1, AllowedMeans DEF AllowedIsRunnable, Callable
<1>3. ASSUME NEW t \in Callable(ctx)
      PROVE  t \in permitted_tool_names(ctx)
  <2>1. PICK p \in Principals : MayRunAs(ctx, t, None, p)
    BY DEF Callable
  <2>2. t \in Tools /\ tools[t] # None
    BY DEF Callable
  <2>3. authorize_tool(ctx, t, None).effect = "allow"
    BY <1>1, <2>1, <2>2, EngineIsPolicy DEF EngineMeetsPolicy
  <2>4. tools[t].enabled
    BY <2>1 DEF MayRunAs
  <2> QED BY <2>2, <2>3, <2>4 DEF permitted_tool_names, list_tools
<1> QED BY <1>2, <1>3

\* What is callable is in the catalog, on an enabled server.
LEMMA CallableIsListed ==
  ASSUME NEW ctx, NEW t \in Callable(ctx)
  PROVE  t \in list_tools /\ ToolServer[t] \in enabled
  BY DEF Callable, MayRunAs, list_tools

LEMMA DiscoveryIsExact == PolicyTypeOK => DiscoveryShowsTheCallable
<1> SUFFICES ASSUME PolicyTypeOK, NEW ctx \in Contexts
             PROVE  /\ \A servers \in SUBSET Servers, relevant \in SUBSET Tools :
                         discover(ctx, servers, relevant).matches =
                           {t \in Callable(ctx) \intersect relevant :
                              servers = {} \/ ToolServer[t] \in servers}
                    /\ {s.name : s \in listed_servers(ctx)} =
                         {ToolServer[t] : t \in Callable(ctx)}
  BY DEF DiscoveryShowsTheCallable
<1>1. permitted_tool_names(ctx) = Callable(ctx)
  BY PermittedIsCallable
<1>2. \A t \in Callable(ctx) : t \in Tools /\ t \in list_tools /\ ToolServer[t] \in enabled
  BY CallableIsListed DEF Callable
<1>3. ASSUME NEW servers, NEW relevant
      PROVE  discover(ctx, servers, relevant).matches =
               {t \in Callable(ctx) \intersect relevant :
                  servers = {} \/ ToolServer[t] \in servers}
  BY <1>1, <1>2 DEF discover, search_tools
<1>4. discover(ctx, {}, Tools).matches = Callable(ctx)
  <2>1. discover(ctx, {}, Tools).matches =
          {t \in Callable(ctx) \intersect Tools : {} = {} \/ ToolServer[t] \in {}}
    BY <1>3
  <2> QED BY <1>2, <2>1
<1>5. \A s : (s \in enabled \intersect {ToolServer[t] : t \in Callable(ctx)})
               <=> s \in {ToolServer[t] : t \in Callable(ctx)}
  BY <1>2
<1>6. {s.name : s \in listed_servers(ctx)} =
        enabled \intersect {ToolServer[t] : t \in Callable(ctx)}
  <2> DEFINE names == enabled \intersect {ToolServer[t] : t \in Callable(ctx)}
             entry(s) == [name |-> s,
                          tool_count |-> Cardinality({t \in Callable(ctx) : ToolServer[t] = s})]
  <2>1. listed_servers(ctx) = {entry(s) : s \in names}
    BY <1>4 DEF listed_servers
  <2>2. \A s : entry(s).name = s
    OBVIOUS
  <2> HIDE DEF entry, names
  <2>3. {s.name : s \in {entry(x) : x \in names}} = names
    BY <2>2
  <2> QED BY <2>1, <2>3 DEF names
<1> QED BY <1>3, <1>5, <1>6

\* Discovery shows the callable tools, all and only, in every reachable policy
\* (registry/tools.py, search_tools(); mcp/discovery.py, discover()).
THEOREM DiscoveryTheorem == SpecPolicy => []DiscoveryShowsTheCallable
  BY PolicyTypeCorrect, DiscoveryIsExact, PTL

\* What is shown was callable at the first read and is there at the second,
\* whatever an administrator does to the registry between them
\* (mcp/discovery.py, discover()).
THEOREM WithdrawnTheorem == SpecPolicy => NothingWithdrawnIsShown
<1> DEFINE Shown ==
      \A ctx \in Contexts : \A permitted \in {permitted_tool_names(ctx)} :
        \A t \in search_tools(permitted, {}, Tools)' :
          /\ t \in Callable(ctx)
          /\ tools'[t].enabled /\ ToolServer[t] \in registered' \intersect enabled'
<1>1. ASSUME PolicyTypeOK, PolicyTypeOK'
      PROVE  Shown
  <2> SUFFICES ASSUME NEW ctx \in Contexts, NEW permitted \in {permitted_tool_names(ctx)},
                      NEW t \in search_tools(permitted, {}, Tools)'
               PROVE  /\ t \in Callable(ctx)
                      /\ tools'[t].enabled /\ ToolServer[t] \in registered' \intersect enabled'
    OBVIOUS
  <2>1. /\ t \in permitted /\ tools'[t].enabled /\ ToolServer[t] \in enabled'
    BY DEF search_tools, list_tools
  <2>2. t \in Callable(ctx)
    BY <1>1, <2>1, PermittedIsCallable
  <2>3. enabled' \subseteq registered'
    BY <1>1 DEF PolicyTypeOK
  <2> QED BY <2>1, <2>2, <2>3
<1>2. PolicyTypeOK /\ PolicyTypeOK' => [registry' # registry => Shown]_policyVars
  BY <1>1
<1> QED BY <1>2, PolicyTypeCorrect, PTL DEF NothingWithdrawnIsShown

=============================================================================
