------------------------------ MODULE McpServers ------------------------------
(***************************************************************************)
(* MCP servers added and removed while the program runs.                   *)
(* src/src/mcp/mcp-manager.ts: McpManager; src/src/mcp/mcp-client.ts:      *)
(* connect, refreshCatalog and close; src/src/tui/mcp/mcp-orchestrator.ts: *)
(* the panel's add and remove; src/src/runtime/bootstrap.ts: refreshMcp.   *)
(*                                                                         *)
(* Every addition builds a new ManagedServer with a client of its own: an  *)
(* entry here.  The operator may add or remove a server while an earlier   *)
(* operation on the same name waits for the network, and may leave the     *)
(* program meanwhile.                                                      *)
(***************************************************************************)
EXTENDS Integers, FiniteSets

CONSTANTS
    Names,          \* server names
    MaxEntries      \* bound on the ManagedServer objects ever built

ASSUME McpAssumption == MaxEntries \in Nat /\ 0 \notin Names

VARIABLES
    configured,     \* names in config.json
    servers,        \* McpManager.servers: name -> entry, 0 for none
    used,           \* entries built so far
    nameOf,         \* name of an entry
    enabled,        \* config.enabled of an entry
    state,          \* ManagedServer.state
    phase,          \* where connect() of the entry's client waits
    link,           \* McpClient.client # null: a transport is open
    catalog,        \* the client's catalog lists tools
    fetched,        \* listTools() has answered with tools, catalog not yet set
    registered,     \* registeredToolNames is not empty
    closing,        \* a removal waits for the client to close
    registry,       \* ToolRegistry: name -> entry whose client its tools call
    advertised,     \* names whose tools the grammar and the prompt list
    shut,           \* shutdown() was called
    cutAt,          \* (history) where connect() waited when the entry was stopped
    displaced       \* (history) entries that the end of an earlier entry's
                    \* removal took out of the map

entryVars == <<nameOf, enabled, state, phase, link, catalog, fetched, registered, closing>>
vars == <<configured, servers, used, entryVars, registry, advertised, shut, cutAt, displaced>>

Entries == 1..MaxEntries
Live == {servers[n] : n \in Names} \ {0}

TypeOK ==
    /\ configured \subseteq Names /\ advertised \subseteq Names
    /\ displaced \subseteq Entries
    /\ servers \in [Names -> Entries \cup {0}] /\ registry \in [Names -> Entries \cup {0}]
    /\ used \in 0..MaxEntries
    /\ nameOf \in [Entries -> Names \cup {0}]
    /\ state \in [Entries -> {"starting", "up", "down", "disabled"}]
    /\ {phase, cutAt} \subseteq [Entries -> {"none", "handshake", "listing", "listed"}]
    /\ {enabled, link, catalog, fetched, registered, closing} \subseteq [Entries -> BOOLEAN]
    /\ shut \in BOOLEAN

\* The program after bootstrap: start() has awaited every configured server,
\* each of them up, with tools or without, or down, or disabled.
Init ==
    /\ \E boot \in [Names -> {"absent", "up", "bare", "down", "disabled"}],
          order \in [Names -> Entries] :
        /\ configured = {n \in Names : boot[n] # "absent"}
        /\ used = Cardinality(configured)
        /\ \A m, n \in configured : m # n => order[m] # order[n]
        /\ \A n \in Names : order[n] <= used \/ (n \notin configured /\ order[n] = 1)
        /\ servers = [n \in Names |-> IF n \in configured THEN order[n] ELSE 0]
        /\ LET At(e) == IF \E n \in configured : order[n] = e
                          THEN boot[CHOOSE n \in configured : order[n] = e] ELSE "absent"
           IN
            /\ nameOf = [e \in Entries |->
                            IF At(e) = "absent" THEN 0
                            ELSE CHOOSE n \in configured : order[n] = e]
            /\ enabled = [e \in Entries |-> At(e) \in {"up", "bare", "down"}]
            /\ state = [e \in Entries |->
                            CASE At(e) \in {"up", "bare"} -> "up"
                              [] At(e) = "down" -> "down"
                              [] OTHER -> "disabled"]
            /\ link = [e \in Entries |-> At(e) \in {"up", "bare"}]
            /\ catalog = [e \in Entries |-> At(e) = "up"]
            /\ registered = catalog
            /\ registry = [n \in Names |-> IF boot[n] = "up" THEN order[n] ELSE 0]
            /\ advertised = {n \in Names : boot[n] = "up"}
    /\ phase = [e \in Entries |-> "none"]
    /\ fetched = [e \in Entries |-> FALSE]
    /\ closing = [e \in Entries |-> FALSE]
    /\ shut = FALSE
    /\ cutAt = [e \in Entries |-> "none"]
    /\ displaced = {}

-----------------------------------------------------------------------------

\* Mutant: the catalogs are merged into what was advertised before.
RefreshMerges ==
    advertised' = advertised \cup {n \in Names :
        servers'[n] # 0 /\ state'[servers'[n]] = "up" /\ catalog'[servers'[n]]}

\* refreshMcp: grammar and descriptors from listAllToolMeta, the catalogs of
\* the servers that are up.
Refresh ==
    advertised' = {n \in Names :
        servers'[n] # 0 /\ state'[servers'[n]] = "up" /\ catalog'[servers'[n]]}

\* Mutant: the list of an entry is emptied, the tools stay.
UnregisterListOnly(S) ==
    /\ registry' = registry
    /\ registered' = [e \in Entries |-> registered[e] /\ e \notin S]

\* unregisterToolsFor, over a set of entries: by name, whoever registered last.
Unregister(S) ==
    /\ registry' = [n \in Names |->
                        IF \E e \in S : registered[e] /\ nameOf[e] = n THEN 0 ELSE registry[n]]
    /\ registered' = [e \in Entries |-> registered[e] /\ e \notin S]

\* The state stopOne leaves an entry in.
Stopped(e) == IF enabled[e] THEN "down" ELSE "disabled"

\* The panel's add: config.json first, which refuses a name it has, then
\* addServerLive, which does nothing for a name it still has.
AddAgain(n) ==
    /\ ~shut /\ n \notin configured /\ servers[n] # 0
    /\ configured' = configured \cup {n}
    /\ UNCHANGED <<servers, used, entryVars, registry, advertised, shut, cutAt, displaced>>

Add(n, on) ==
    /\ ~shut /\ n \notin configured /\ servers[n] = 0
    /\ used < MaxEntries
    /\ configured' = configured \cup {n}
    /\ used' = used + 1
    /\ servers' = [servers EXCEPT ![n] = used']
    /\ nameOf' = [nameOf EXCEPT ![used'] = n]
    /\ enabled' = [enabled EXCEPT ![used'] = on]
    /\ state' = [state EXCEPT ![used'] = IF on THEN "starting" ELSE "disabled"]
    /\ phase' = [phase EXCEPT ![used'] = IF on THEN "handshake" ELSE "none"]
    /\ UNCHANGED <<link, catalog, fetched, registered, closing, registry, shut, cutAt, displaced>>
    /\ IF on THEN UNCHANGED advertised ELSE Refresh

\* client.connect answered; refreshCatalog asks for the tools.
HandshakeDone(e) ==
    /\ phase[e] = "handshake"
    /\ phase' = [phase EXCEPT ![e] = "listing"]
    /\ link' = [link EXCEPT ![e] = TRUE]
    /\ UNCHANGED <<configured, servers, used, nameOf, enabled, state, catalog, fetched,
                   registered, closing, registry, advertised, shut, cutAt, displaced>>

\* It failed or the connect timeout fired: the transport is closed, the server
\* is down and the panel's add goes on to refreshMcp.
HandshakeFails(e) ==
    /\ phase[e] = "handshake"
    /\ phase' = [phase EXCEPT ![e] = "none"]
    /\ state' = [state EXCEPT ![e] = "down"]
    /\ UNCHANGED <<configured, servers, used, nameOf, enabled, link, catalog, fetched,
                   registered, closing, registry, shut, cutAt, displaced>>
    /\ Refresh

\* listTools answered; a failure, such as the client being closed, counts as no
\* tools.  The resources and the prompts are asked for next.
ToolsListed(e, some) ==
    /\ phase[e] = "listing"
    /\ some => link[e]
    /\ phase' = [phase EXCEPT ![e] = "listed"]
    /\ fetched' = [fetched EXCEPT ![e] = some]
    /\ UNCHANGED <<configured, servers, used, nameOf, enabled, state, link, catalog,
                   registered, closing, registry, advertised, shut, cutAt, displaced>>

\* The catalog is set, whatever became of the client; startOne registers the
\* tools and reports the server up; the panel's add goes on to refreshMcp.
Connected(e) ==
    /\ phase[e] = "listed"
    /\ phase' = [phase EXCEPT ![e] = "none"]
    /\ catalog' = [catalog EXCEPT ![e] = fetched[e]]
    /\ fetched' = [fetched EXCEPT ![e] = FALSE]
    /\ registered' = [registered EXCEPT ![e] = fetched[e]]
    /\ registry' = IF fetched[e] THEN [registry EXCEPT ![nameOf[e]] = e] ELSE registry
    /\ state' = [state EXCEPT ![e] = "up"]
    /\ UNCHANGED <<configured, servers, used, nameOf, enabled, link, closing, shut, cutAt, displaced>>
    /\ Refresh

\* The name of an entry leaves the map, whichever entry it stands for by now.
Leaves(e) == [servers EXCEPT ![nameOf[e]] = 0]

\* The panel's remove: config.json, then removeServerLive.  With a transport to
\* close it waits with the entry still in the map.
Remove(n) ==
    /\ ~shut /\ n \in configured
    /\ configured' = configured \ {n}
    /\ LET e == servers[n] IN
        IF e = 0 THEN
            /\ UNCHANGED <<servers, entryVars, registry, cutAt>>
            /\ Refresh
        ELSE
            /\ Unregister({e})
            /\ link' = [link EXCEPT ![e] = FALSE]
            /\ catalog' = IF link[e] THEN [catalog EXCEPT ![e] = FALSE] ELSE catalog
            /\ cutAt' = [cutAt EXCEPT ![e] = phase[e]]
            /\ UNCHANGED <<nameOf, enabled, phase, fetched>>
            /\ IF link[e] THEN
                  /\ closing' = [closing EXCEPT ![e] = TRUE]
                  /\ UNCHANGED <<servers, state, advertised>>
               ELSE
                  /\ state' = [state EXCEPT ![e] = Stopped(e)]
                  /\ servers' = Leaves(e)
                  /\ UNCHANGED closing
                  /\ Refresh
    /\ UNCHANGED <<used, shut, displaced>>

\* client.close() is done: the rest of stopOne, and the entry leaves the map.
Closed(e) ==
    /\ closing[e]
    /\ closing' = [closing EXCEPT ![e] = FALSE]
    /\ state' = [state EXCEPT ![e] = Stopped(e)]
    /\ servers' = Leaves(e)
    /\ displaced' = displaced \cup ({servers[nameOf[e]]} \ {0, e})
    /\ UNCHANGED <<configured, used, nameOf, enabled, phase, link, catalog, fetched,
                   registered, registry, shut, cutAt>>
    /\ Refresh

\* McpManager.shutdown: every entry of the map loses its tools and its client.
Shutdown ==
    /\ ~shut
    /\ shut' = TRUE
    /\ Unregister(Live)
    /\ state' = [e \in Entries |-> IF e \in Live THEN "down" ELSE state[e]]
    /\ catalog' = [e \in Entries |-> catalog[e] /\ ~(e \in Live /\ link[e])]
    /\ link' = [e \in Entries |-> link[e] /\ e \notin Live]
    /\ cutAt' = [e \in Entries |-> IF e \in Live THEN phase[e] ELSE cutAt[e]]
    /\ UNCHANGED <<configured, servers, used, nameOf, enabled, phase, fetched, closing,
                   advertised, displaced>>

Next ==
    \/ \E n \in Names : AddAgain(n) \/ (\E on \in BOOLEAN : Add(n, on)) \/ Remove(n)
    \/ \E e \in Entries :
        \/ HandshakeDone(e) \/ HandshakeFails(e)
        \/ \E some \in BOOLEAN : ToolsListed(e, some)
        \/ Connected(e) \/ Closed(e)
    \/ Shutdown

Spec == Init /\ [][Next]_vars

-----------------------------------------------------------------------------

\* An entry that left the map while its client could still do something.
Stray(e) == e \in displaced \/ cutAt[e] # "none"

\* What the model is told it can call can be called: at every moment until
\* shutdown() an advertised name has a server in the map that is being removed,
\* or whose transport is open and whose tools are registered.  Only the tools
\* of a stray entry of that name, which connected late, may stand in for them.
AdvertisedReachesServer ==
    ~shut => \A n \in advertised :
        /\ servers[n] # 0
        /\ \/ closing[servers[n]]
           \/ /\ link[servers[n]]
              /\ registry[n] = servers[n] \/ (registry[n] # 0 /\ Stray(registry[n]))

\* What the manager answers for; after shutdown() nothing.
Held == IF shut THEN {} ELSE Live

\* "Always tears down every registered tool": a transport stays open behind a
\* removal or behind shutdown() only where the entry was stopped in the middle
\* of its handshake, and tools stay registered only where it was stopped while
\* it connected, unless the entry was displaced and never stopped at all.
LeftoversAreRaces == \A e \in Entries \ Held : e \notin displaced =>
    /\ link[e] => cutAt[e] = "handshake"
    /\ (\E n \in Names : registry[n] = e) => cutAt[e] # "none"
=============================================================================
