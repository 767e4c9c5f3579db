--------------------------- MODULE McpServersProofs ---------------------------
(***************************************************************************)
(* Proofs about McpServers, for any names and any number of entries.       *)
(***************************************************************************)
EXTENDS McpServers, FiniteSetTheorems, TLAPS

\* What an entry may still do or have once it was stopped: connect() goes on
\* where it waited, and only an unanswered handshake opens a transport.
Quiet(e) ==
    /\ phase[e] # "none" \/ registered[e] => cutAt[e] # "none"
    /\ phase[e] = "handshake" \/ link[e] => cutAt[e] = "handshake"

\* Entries are built once: what has no name yet is in use nowhere, and the map
\* holds entries under their own names.
EntryInv ==
    /\ \A n \in Names : servers[n] # 0 => nameOf[servers[n]] = n
    /\ \A e \in Entries : e > used => nameOf[e] = 0
    /\ \A e \in Entries : nameOf[e] = 0 =>
        phase[e] = "none" /\ ~link[e] /\ ~registered[e] /\ ~closing[e] /\ cutAt[e] = "none"

\* The registry holds tools of entries that know of them, and an entry connects
\* once.
RegistryInv ==
    /\ \A n \in Names : registry[n] # 0 =>
        registered[registry[n]] /\ nameOf[registry[n]] = n
    /\ \A e \in Entries : phase[e] # "none" => ~registered[e]
    /\ \A e \in Entries : phase[e] \in {"listing", "listed"} => link[e] \/ cutAt[e] # "none"

\* What was stopped is quiet: what a removal waits for, what left the map
\* without being displaced, and everything after shutdown().
LeftInv == \A e \in Entries : e \notin Held \/ closing[e] => e \in displaced \/ Quiet(e)

\* The tools registered under a name are those of its server, or of a stray.
Answers(n) == registry[n] = servers[n] \/ (registry[n] # 0 /\ Stray(registry[n]))

\* A server no removal waits for was never stopped and can be called once its
\* catalog lists tools; what is advertised can be called or is being removed.
UpInv == ~shut => \A n \in Names :
    /\ servers[n] # 0 /\ ~closing[servers[n]] => cutAt[servers[n]] = "none"
    /\ servers[n] # 0 /\ ~closing[servers[n]] /\ state[servers[n]] = "up" /\ catalog[servers[n]] =>
        link[servers[n]] /\ Answers(n)
    /\ n \in advertised =>
        servers[n] # 0 /\ (closing[servers[n]] \/ (link[servers[n]] /\ Answers(n)))

IInv == TypeOK /\ EntryInv /\ RegistryInv /\ LeftInv /\ UpInv
-----------------------------------------------------------------------------

\* The panel adds a name the manager still holds.
LEMMA AddAgainStep ==
    ASSUME IInv, NEW n \in Names, AddAgain(n)
    PROVE  IInv'
<1>1. TypeOK'
    BY McpAssumption DEF IInv, TypeOK, Entries, EntryInv, AddAgain, entryVars
<1>2. EntryInv'
    BY McpAssumption DEF IInv, TypeOK, Entries, EntryInv, AddAgain, entryVars
<1>3. RegistryInv'
    BY McpAssumption DEF IInv, TypeOK, Entries, EntryInv, RegistryInv, AddAgain, entryVars
<1>4. LeftInv'
    BY McpAssumption DEF IInv, TypeOK, Entries, EntryInv, RegistryInv, LeftInv, Quiet, Held,
           Live, AddAgain, entryVars
<1>5. UpInv'
    BY McpAssumption DEF IInv, TypeOK, Entries, EntryInv, RegistryInv, LeftInv, UpInv, Quiet,
           Held, Live, Answers, Stray, AddAgain, entryVars
<1>. QED
    BY <1>1, <1>2, <1>3, <1>4, <1>5 DEF IInv

\* The panel adds a server.
LEMMA AddStep ==
    ASSUME IInv, NEW n \in Names, NEW on \in BOOLEAN, Add(n, on)
    PROVE  IInv'
<1>1. TypeOK'
    BY McpAssumption DEF IInv, TypeOK, Entries, EntryInv, Add, Refresh
<1>2. EntryInv'
    BY McpAssumption DEF IInv, TypeOK, Entries, EntryInv, Add, Refresh
<1>3. RegistryInv'
    BY McpAssumption DEF IInv, TypeOK, Entries, EntryInv, RegistryInv, Add, Refresh
<1>4. LeftInv'
    BY McpAssumption DEF IInv, TypeOK, Entries, EntryInv, RegistryInv, LeftInv, Quiet, Held,
           Live, Add, Refresh
<1>5. UpInv'
    BY McpAssumption DEF IInv, TypeOK, Entries, EntryInv, RegistryInv, LeftInv, UpInv, Quiet,
           Held, Live, Answers, Stray, Add, Refresh
<1>. QED
    BY <1>1, <1>2, <1>3, <1>4, <1>5 DEF IInv

\* A handshake is answered.
LEMMA HandshakeDoneStep ==
    ASSUME IInv, NEW e \in Entries, HandshakeDone(e)
    PROVE  IInv'
<1>1. TypeOK'
    BY McpAssumption DEF IInv, TypeOK, Entries, EntryInv, HandshakeDone
<1>2. EntryInv'
    BY McpAssumption DEF IInv, TypeOK, Entries, EntryInv, HandshakeDone
<1>3. RegistryInv'
    BY McpAssumption DEF IInv, TypeOK, Entries, EntryInv, RegistryInv, HandshakeDone
<1>4. LeftInv'
    BY McpAssumption DEF IInv, TypeOK, Entries, EntryInv, RegistryInv, LeftInv, Quiet, Held,
           Live, HandshakeDone
<1>5. UpInv'
    BY McpAssumption DEF IInv, TypeOK, Entries, EntryInv, RegistryInv, LeftInv, UpInv, Quiet,
           Held, Live, Answers, Stray, HandshakeDone
<1>. QED
    BY <1>1, <1>2, <1>3, <1>4, <1>5 DEF IInv

\* A handshake fails.
LEMMA HandshakeFailsStep ==
    ASSUME IInv, NEW e \in Entries, HandshakeFails(e)
    PROVE  IInv'
<1>1. TypeOK'
    BY McpAssumption DEF IInv, TypeOK, Entries, EntryInv, HandshakeFails, Refresh
<1>2. EntryInv'
    BY McpAssumption DEF IInv, TypeOK, Entries, EntryInv, HandshakeFails, Refresh
<1>3. RegistryInv'
    BY McpAssumption DEF IInv, TypeOK, Entries, EntryInv, RegistryInv, HandshakeFails, Refresh
<1>4. LeftInv'
    BY McpAssumption DEF IInv, TypeOK, Entries, EntryInv, RegistryInv, LeftInv, Quiet, Held,
           Live, HandshakeFails, Refresh
<1>5. UpInv'
    BY McpAssumption DEF IInv, TypeOK, Entries, EntryInv, RegistryInv, LeftInv, UpInv, Quiet,
           Held, Live, Answers, Stray, HandshakeFails, Refresh
<1>. QED
    BY <1>1, <1>2, <1>3, <1>4, <1>5 DEF IInv

\* The tools are listed.
LEMMA ToolsListedStep ==
    ASSUME IInv, NEW e \in Entries, NEW some \in BOOLEAN, ToolsListed(e, some)
    PROVE  IInv'
<1>1. TypeOK'
    BY McpAssumption DEF IInv, TypeOK, Entries, EntryInv, ToolsListed
<1>2. EntryInv'
    BY McpAssumption DEF IInv, TypeOK, Entries, EntryInv, ToolsListed
<1>3. RegistryInv'
    BY McpAssumption DEF IInv, TypeOK, Entries, EntryInv, RegistryInv, ToolsListed
<1>4. LeftInv'
    BY McpAssumption DEF IInv, TypeOK, Entries, EntryInv, RegistryInv, LeftInv, Quiet, Held,
           Live, ToolsListed
<1>5. UpInv'
    BY McpAssumption DEF IInv, TypeOK, Entries, EntryInv, RegistryInv, LeftInv, UpInv, Quiet,
           Held, Live, Answers, Stray, ToolsListed
<1>. QED
    BY <1>1, <1>2, <1>3, <1>4, <1>5 DEF IInv

\* A server is connected.
LEMMA ConnectedStep ==
    ASSUME IInv, NEW e \in Entries, Connected(e)
    PROVE  IInv'
<1>1. TypeOK'
    BY McpAssumption DEF IInv, TypeOK, Entries, EntryInv, Connected, Refresh
<1>2. EntryInv'
    BY McpAssumption DEF IInv, TypeOK, Entries, EntryInv, Connected, Refresh
<1>3. RegistryInv'
    BY McpAssumption DEF IInv, TypeOK, Entries, EntryInv, RegistryInv, Connected, Refresh
<1>4. LeftInv'
    BY McpAssumption DEF IInv, TypeOK, Entries, EntryInv, RegistryInv, LeftInv, Quiet, Held,
           Live, Connected, Refresh
<1>5. UpInv'
    BY McpAssumption DEF IInv, TypeOK, Entries, EntryInv, RegistryInv, LeftInv, UpInv, Quiet,
           Held, Live, Answers, Stray, Connected, Refresh
<1>. QED
    BY <1>1, <1>2, <1>3, <1>4, <1>5 DEF IInv

\* The panel removes a server.
LEMMA RemoveStep ==
    ASSUME IInv, NEW n \in Names, Remove(n)
    PROVE  IInv'
<1>1. CASE servers[n] = 0
    <2>1. /\ configured' = configured \ {n}
          /\ UNCHANGED <<servers, entryVars, registry, cutAt, used, shut, displaced>>
          /\ Refresh
        BY <1>1 DEF Remove
    <2>2. TypeOK'
        BY <2>1 DEF IInv, TypeOK, Refresh, entryVars
    <2>3. EntryInv'
        BY <2>1 DEF IInv, EntryInv, entryVars
    <2>4. RegistryInv'
        BY <2>1 DEF IInv, RegistryInv, entryVars
    <2>5. LeftInv'
        BY <2>1 DEF IInv, LeftInv, Quiet, Held, Live, entryVars
    <2>6. UpInv'
        BY <2>1 DEF IInv, UpInv, Answers, Stray, Refresh, entryVars
    <2>. QED
        BY <2>2, <2>3, <2>4, <2>5, <2>6 DEF IInv
<1>2. ASSUME NEW e \in Entries, e = servers[n]
      PROVE  IInv'
    <2>1. /\ registry' = [m \in Names |-> IF registered[e] /\ m = n THEN 0 ELSE registry[m]]
          /\ registered' = [f \in Entries |-> registered[f] /\ f # e]
        BY <1>2, McpAssumption DEF Remove, Unregister, IInv, TypeOK, EntryInv, Entries
    <2>2. /\ ~shut
          /\ configured' = configured \ {n}
          /\ link' = [link EXCEPT ![e] = FALSE]
          /\ catalog' = IF link[e] THEN [catalog EXCEPT ![e] = FALSE] ELSE catalog
          /\ cutAt' = [cutAt EXCEPT ![e] = phase[e]]
          /\ UNCHANGED <<used, nameOf, enabled, phase, fetched, shut, displaced>>
        BY <1>2, McpAssumption DEF Remove, Entries
    <2>3. /\ registry' \in [Names -> Entries \cup {0}]
          /\ cutAt' \in [Entries -> {"none", "handshake", "listing", "listed"}]
          /\ {link', catalog', registered'} \subseteq [Entries -> BOOLEAN]
        <3>1. registry' \in [Names -> Entries \cup {0}] /\ registered' \in [Entries -> BOOLEAN]
            BY <2>1 DEF IInv, TypeOK
        <3>2. link' \in [Entries -> BOOLEAN] /\ catalog' \in [Entries -> BOOLEAN]
            BY <2>2 DEF IInv, TypeOK
        <3>3. cutAt' \in [Entries -> {"none", "handshake", "listing", "listed"}]
            BY <2>2 DEF IInv, TypeOK
        <3>. QED
            BY <3>1, <3>2, <3>3
    <2>4. nameOf[e] = n /\ \A m \in Names : servers[m] = e => m = n
        BY <1>2, McpAssumption DEF IInv, EntryInv, Entries
    <2>5. /\ ~registered'[e] /\ ~link'[e] /\ cutAt'[e] = phase[e]
          /\ \A f \in Entries \ {e} : /\ registered'[f] = registered[f]
                                      /\ link'[f] = link[f] /\ cutAt'[f] = cutAt[f]
                                      /\ catalog'[f] = catalog[f]
        BY <2>1, <2>2 DEF IInv, TypeOK
    <2>6. \A m \in Names \ {n} : registry'[m] = registry[m] /\ registry[m] # e
        BY <2>1, <2>4, McpAssumption DEF IInv, RegistryInv, TypeOK, Entries
    <2>7. RegistryInv'
        BY <2>1, <2>2, <2>4, <2>5, McpAssumption DEF IInv, TypeOK, EntryInv, RegistryInv, Entries
    <2>8. CASE link[e]
        <3>. /\ closing' = [closing EXCEPT ![e] = TRUE]
             /\ UNCHANGED <<servers, state, advertised>>
            BY <1>2, <2>8, McpAssumption DEF Remove, Entries
        <3>1. TypeOK'
            BY <2>2, <2>3 DEF IInv, TypeOK
        <3>2. EntryInv'
            BY McpAssumption, <2>2, <2>4, <2>5 DEF IInv, TypeOK, EntryInv
        <3>3. LeftInv'
            <4>. SUFFICES ASSUME NEW f \in Entries, f \notin Held' \/ closing'[f], f \notin displaced
                          PROVE  Quiet(f)'
                BY <2>2 DEF LeftInv, Entries
            <4>1. CASE f = e
                BY <4>1, <2>2, <2>5 DEF Quiet
            <4>2. CASE f # e
                <5>1. f \notin Held \/ closing[f]
                    BY <2>2, <4>2 DEF IInv, TypeOK, Held, Live
                <5>. QED
                    BY <2>2, <2>5, <4>2, <5>1 DEF IInv, LeftInv, Quiet
            <4>. QED
                BY <4>1, <4>2
        <3>4. UpInv'
            <4>. SUFFICES ASSUME NEW m \in Names PROVE
                    /\ servers[m] # 0 /\ ~closing'[servers[m]] => cutAt'[servers[m]] = "none"
                    /\ servers[m] # 0 /\ ~closing'[servers[m]] /\ state[servers[m]] = "up"
                            /\ catalog'[servers[m]] => link'[servers[m]] /\ Answers(m)'
                    /\ m \in advertised => servers[m] # 0
                            /\ (closing'[servers[m]] \/ (link'[servers[m]] /\ Answers(m)'))
                BY DEF UpInv
            <4>1. CASE m = n
                BY <1>2, <4>1, McpAssumption DEF IInv, TypeOK, Entries
            <4>2. CASE m # n
                <5>1. servers[m] # e /\ registry'[m] = registry[m] /\ registry[m] # e
                    BY <2>4, <2>6, <4>2
                <5>2. Answers(m) => Answers(m)'
                    BY <5>1, <2>2, <2>5 DEF Answers, Stray, IInv, TypeOK
                <5>. QED
                    BY <2>2, <2>5, <5>1, <5>2 DEF IInv, TypeOK, UpInv
            <4>. QED
                BY <4>1, <4>2
        <3>. QED
            BY <2>7, <3>1, <3>2, <3>3, <3>4 DEF IInv
    <2>9. CASE ~link[e]
        <3>. /\ state' = [state EXCEPT ![e] = Stopped(e)]
             /\ servers' = [servers EXCEPT ![n] = 0]
             /\ UNCHANGED closing
             /\ Refresh
            BY <1>2, <2>9, <2>4, McpAssumption DEF Remove, Leaves, Entries
        <3>1. TypeOK'
            <4>1. servers' \in [Names -> Entries \cup {0}]
                BY DEF IInv, TypeOK
            <4>2. state' \in [Entries -> {"starting", "up", "down", "disabled"}]
                BY DEF IInv, TypeOK, Stopped
            <4>3. advertised' \subseteq Names
                BY DEF Refresh
            <4>. QED
                BY <2>2, <2>3, <4>1, <4>2, <4>3 DEF IInv, TypeOK
        <3>2. EntryInv'
            BY McpAssumption, <2>2, <2>4, <2>5 DEF IInv, TypeOK, EntryInv
        <3>3. LeftInv'
            <4>. SUFFICES ASSUME NEW f \in Entries, f \notin Held' \/ closing'[f], f \notin displaced
                          PROVE  Quiet(f)'
                BY <2>2 DEF LeftInv, Entries
            <4>1. CASE f = e
                BY <4>1, <2>2, <2>5 DEF Quiet
            <4>2. CASE f # e
                <5>1. f \notin Held \/ closing[f]
                    BY <1>2, <2>2, <4>2 DEF IInv, TypeOK, Held, Live
                <5>. QED
                    BY <2>2, <2>5, <4>2, <5>1 DEF IInv, LeftInv, Quiet
            <4>. QED
                BY <4>1, <4>2
        <3>4. UpInv'
            <4>1. ASSUME NEW m \in Names, servers'[m] # 0
                  PROVE  /\ ~closing[servers'[m]] => cutAt'[servers'[m]] = "none"
                         /\ ~closing[servers'[m]] /\ state'[servers'[m]] = "up" /\ catalog'[servers'[m]] =>
                                link'[servers'[m]] /\ Answers(m)'
                <5>1. m # n /\ servers'[m] = servers[m]
                    BY <4>1 DEF IInv, TypeOK
                <5>2. servers[m] # e /\ registry'[m] = registry[m] /\ registry[m] # e
                    BY <2>4, <2>6, <5>1
                <5>3. Answers(m) => Answers(m)'
                    BY <5>1, <5>2, <2>2, <2>5 DEF Answers, Stray, IInv, TypeOK
                <5>. QED
                    BY <2>2, <2>5, <4>1, <5>1, <5>2, <5>3 DEF IInv, TypeOK, UpInv
            <4>. QED
                BY <4>1 DEF UpInv, Refresh
        <3>. QED
            BY <2>7, <3>1, <3>2, <3>3, <3>4 DEF IInv
    <2>. QED
        BY <2>8, <2>9
<1>. QED
    BY <1>1, <1>2 DEF IInv, TypeOK

\* A removal is through.
LEMMA ClosedStep ==
    ASSUME IInv, NEW e \in Entries, Closed(e)
    PROVE  IInv'
<1>1. TypeOK'
    <2>1. nameOf[e] \in Names
        BY DEF IInv, TypeOK, EntryInv, Closed
    <2>2. displaced' \subseteq Entries /\ servers' \in [Names -> Entries \cup {0}]
        BY <2>1 DEF IInv, TypeOK, Closed, Leaves
    <2>3. state' \in [Entries -> {"starting", "up", "down", "disabled"}]
        BY DEF IInv, TypeOK, Closed, Stopped
    <2>4. closing' \in [Entries -> BOOLEAN] /\ advertised' \subseteq Names
        BY DEF IInv, TypeOK, Closed, Refresh
    <2>. QED
        BY <2>2, <2>3, <2>4 DEF IInv, TypeOK, Closed
<1>2. EntryInv'
    BY McpAssumption DEF IInv, TypeOK, Entries, EntryInv, Closed, Refresh, Stopped, Leaves
<1>3. RegistryInv'
    BY McpAssumption DEF IInv, TypeOK, Entries, EntryInv, RegistryInv, Closed, Refresh, Stopped,
           Leaves
<1>4. LeftInv'
    BY McpAssumption DEF IInv, TypeOK, Entries, EntryInv, RegistryInv, LeftInv, Quiet, Held,
           Live, Closed, Refresh, Stopped, Leaves
<1>5. UpInv'
    BY McpAssumption DEF IInv, TypeOK, Entries, EntryInv, RegistryInv, LeftInv, UpInv, Quiet,
           Held, Live, Answers, Stray, Closed, Refresh, Stopped, Leaves
<1>. QED
    BY <1>1, <1>2, <1>3, <1>4, <1>5 DEF IInv

\* The program shuts the manager down.
LEMMA ShutdownStep ==
    ASSUME IInv, Shutdown
    PROVE  IInv'
<1>1. TypeOK'
    BY McpAssumption DEF IInv, TypeOK, Entries, EntryInv, Shutdown, Unregister
<1>2. EntryInv'
    BY McpAssumption DEF IInv, TypeOK, Entries, EntryInv, Shutdown, Unregister
<1>3. RegistryInv'
    BY McpAssumption DEF IInv, TypeOK, Entries, EntryInv, RegistryInv, Shutdown, Unregister
<1>4. LeftInv'
    BY McpAssumption DEF IInv, TypeOK, Entries, EntryInv, RegistryInv, LeftInv, Quiet, Held,
           Live, Shutdown, Unregister
<1>5. UpInv'
    BY McpAssumption DEF IInv, TypeOK, Entries, EntryInv, RegistryInv, LeftInv, UpInv, Quiet,
           Held, Live, Answers, Stray, Shutdown, Unregister
<1>. QED
    BY <1>1, <1>2, <1>3, <1>4, <1>5 DEF IInv

-----------------------------------------------------------------------------

\* An injection into 1..N bounds a cardinality.
LEMMA Numbered ==
    ASSUME NEW S, NEW N \in Nat, NEW f \in [S -> 1..N],
           \A x, y \in S : x # y => f[x] # f[y]
    PROVE  Cardinality(S) \in 0..N
<1>1. f \in Injection(S, 1..N)
    BY DEF Injection, IsInjective
<1>2. IsFiniteSet(1..N) /\ Cardinality(1..N) = N
    BY FS_Interval
<1>3. IsFiniteSet(S) /\ Cardinality(S) <= N
    BY <1>1, <1>2, FS_Injection
<1>. QED
    BY <1>3, FS_CardinalityType

\* The servers bootstrap has awaited: numbered by an injection, so that an entry
\* has one name at most.
LEMMA InitInv == Init => IInv
<1>. SUFFICES ASSUME Init PROVE IInv
    OBVIOUS
<1>1. PICK boot \in [Names -> {"absent", "up", "bare", "down", "disabled"}],
           order \in [Names -> Entries] :
        /\ configured = {n \in Names : boot[n] # "absent"}
        /\ used = Cardinality(configured)
        /\ \A m, n \in configured : m # n => order[m] # order[n]
        /\ \A n \in Names : order[n] <= used \/ (n \notin configured /\ order[n] = 1)
        /\ servers = [n \in Names |-> IF n \in configured THEN order[n] ELSE 0]
        /\ LET At(e) == IF \E n \in configured : order[n] = e
                          THEN boot[CHOOSE n \in configured : order[n] = e] ELSE "absent"
           IN
            /\ nameOf = [e \in Entries |->
                            IF At(e) = "absent" THEN 0
                            ELSE CHOOSE n \in configured : order[n] = e]
            /\ enabled = [e \in Entries |-> At(e) \in {"up", "bare", "down"}]
            /\ state = [e \in Entries |->
                            CASE At(e) \in {"up", "bare"} -> "up"
                              [] At(e) = "down" -> "down"
                              [] OTHER -> "disabled"]
            /\ link = [e \in Entries |-> At(e) \in {"up", "bare"}]
            /\ catalog = [e \in Entries |-> At(e) = "up"]
            /\ registered = catalog
            /\ registry = [n \in Names |-> IF boot[n] = "up" THEN order[n] ELSE 0]
            /\ advertised = {n \in Names : boot[n] = "up"}
    BY DEF Init
<1>. DEFINE The(e) == CHOOSE n \in configured : order[n] = e
            At(e) == IF \E n \in configured : order[n] = e THEN boot[The(e)] ELSE "absent"
<1>2. \A n \in configured : The(order[n]) = n /\ At(order[n]) = boot[n]
    BY <1>1
<1>3. \A e \in Entries : At(e) # "absent" => The(e) \in configured /\ order[The(e)] = e
    BY <1>1
<1>. HIDE DEF The, At
<1>4. /\ configured \subseteq Names
      /\ \A n \in configured : boot[n] # "absent" /\ order[n] \in Entries /\ order[n] <= used
      /\ \A n \in Names \ configured : boot[n] = "absent"
      /\ servers = [n \in Names |-> IF n \in configured THEN order[n] ELSE 0]
      /\ registry = [n \in Names |-> IF boot[n] = "up" THEN order[n] ELSE 0]
      /\ advertised = {n \in Names : boot[n] = "up"}
    BY <1>1
<1>5. /\ nameOf = [e \in Entries |-> IF At(e) = "absent" THEN 0 ELSE The(e)]
      /\ enabled = [e \in Entries |-> At(e) \in {"up", "bare", "down"}]
      /\ state = [e \in Entries |->
                    CASE At(e) \in {"up", "bare"} -> "up"
                      [] At(e) = "down" -> "down"
                      [] OTHER -> "disabled"]
      /\ link = [e \in Entries |-> At(e) \in {"up", "bare"}]
      /\ catalog = [e \in Entries |-> At(e) = "up"]
      /\ registered = catalog
    BY <1>1 DEF The, At
<1>6. /\ phase = [e \in Entries |-> "none"] /\ fetched = [e \in Entries |-> FALSE]
      /\ closing = [e \in Entries |-> FALSE] /\ shut = FALSE
      /\ cutAt = [e \in Entries |-> "none"] /\ displaced = {}
    BY DEF Init
<1>7. used \in 0..MaxEntries
    <2>. DEFINE f == [n \in configured |-> order[n]]
    <2>1. f \in [configured -> 1..MaxEntries]
        BY <1>4 DEF Entries
    <2>2. \A x, y \in configured : x # y => f[x] # f[y]
        BY <1>1
    <2>. HIDE DEF f
    <2>3. Cardinality(configured) \in 0..MaxEntries
        BY <2>1, <2>2, Numbered, McpAssumption
    <2>. QED
        BY <1>1, <2>3
<1>8. TypeOK
    <2>1. nameOf \in [Entries -> Names \cup {0}]
        BY <1>3, <1>4, <1>5
    <2>2. state \in [Entries -> {"starting", "up", "down", "disabled"}]
        BY <1>5
    <2>3. {enabled, link, catalog, fetched, registered, closing} \subseteq [Entries -> BOOLEAN]
        BY <1>5, <1>6
    <2>4. servers \in [Names -> Entries \cup {0}] /\ registry \in [Names -> Entries \cup {0}]
        BY <1>4
    <2>5. {phase, cutAt} \subseteq [Entries -> {"none", "handshake", "listing", "listed"}]
        BY <1>6
    <2>. QED
        BY <1>4, <1>6, <1>7, <2>1, <2>2, <2>3, <2>4, <2>5 DEF TypeOK
<1>9. \A n \in configured : nameOf[order[n]] = n
    BY <1>2, <1>4, <1>5
<1>10. EntryInv
    <2>1. \A n \in Names : servers[n] # 0 => nameOf[servers[n]] = n
        BY <1>4, <1>9
    <2>2. \A e \in Entries : e > used => nameOf[e] = 0
        BY <1>3, <1>4, <1>5, <1>7 DEF Entries
    <2>3. \A e \in Entries : nameOf[e] = 0 =>
            phase[e] = "none" /\ ~link[e] /\ ~registered[e] /\ ~closing[e] /\ cutAt[e] = "none"
        <3>. SUFFICES ASSUME NEW e \in Entries, nameOf[e] = 0
                      PROVE  phase[e] = "none" /\ ~link[e] /\ ~registered[e] /\ ~closing[e] /\ cutAt[e] = "none"
            OBVIOUS
        <3>1. At(e) = "absent"
            BY <1>3, <1>4, <1>5, McpAssumption
        <3>. QED
            BY <3>1, <1>5, <1>6
    <2>. QED
        BY <2>1, <2>2, <2>3 DEF EntryInv
<1>11. RegistryInv
    BY <1>2, <1>4, <1>5, <1>6, <1>9 DEF RegistryInv
<1>12. LeftInv
    <2>. SUFFICES ASSUME NEW e \in Entries, link[e] \/ registered[e]
                  PROVE  e \in Live
        BY <1>6 DEF LeftInv, Quiet, Held
    <2>1. The(e) \in configured /\ order[The(e)] = e
        BY <1>3, <1>5
    <2>. QED
        BY <2>1, <1>4, McpAssumption DEF Live, Entries
<1>13. UpInv
    <2>. SUFFICES ASSUME NEW n \in Names
                  PROVE  /\ servers[n] # 0 => cutAt[servers[n]] = "none"
                         /\ (servers[n] # 0 /\ catalog[servers[n]]) \/ n \in advertised =>
                                servers[n] # 0 /\ link[servers[n]] /\ Answers(n)
        BY DEF UpInv
    <2>1. servers[n] # 0 => cutAt[servers[n]] = "none"
        BY <1>6, <1>8 DEF TypeOK
    <2>2. ASSUME (servers[n] # 0 /\ catalog[servers[n]]) \/ n \in advertised
          PROVE  servers[n] # 0 /\ link[servers[n]] /\ Answers(n)
        <3>1. n \in configured /\ boot[n] = "up"
            BY <1>2, <1>4, <1>5, <2>2
        <3>2. servers[n] = order[n] /\ registry[n] = order[n] /\ order[n] \in Entries
            BY <3>1, <1>4
        <3>3. order[n] # 0
            BY <3>2, McpAssumption DEF Entries
        <3>4. At(order[n]) = "up"
            BY <3>1, <1>2
        <3>5. link[order[n]]
            BY <3>2, <3>4, <1>5
        <3>. QED
            BY <3>2, <3>3, <3>5 DEF Answers
    <2>. QED
        BY <2>1, <2>2
<1>. QED
    BY <1>8, <1>10, <1>11, <1>12, <1>13 DEF IInv

\* Spec keeps the strengthened invariant.
THEOREM Invariance == Spec => []IInv
<1>1. IInv /\ [Next]_vars => IInv'
    <2>. SUFFICES ASSUME IInv, [Next]_vars PROVE IInv'
        OBVIOUS
    <2>1. ASSUME NEW n \in Names, AddAgain(n) PROVE IInv'
        BY <2>1, AddAgainStep
    <2>2. ASSUME NEW n \in Names, NEW on \in BOOLEAN, Add(n, on) PROVE IInv'
        BY <2>2, AddStep
    <2>3. ASSUME NEW n \in Names, Remove(n) PROVE IInv'
        BY <2>3, RemoveStep
    <2>4. ASSUME NEW e \in Entries, HandshakeDone(e) PROVE IInv'
        BY <2>4, HandshakeDoneStep
    <2>5. ASSUME NEW e \in Entries, HandshakeFails(e) PROVE IInv'
        BY <2>5, HandshakeFailsStep
    <2>6. ASSUME NEW e \in Entries, NEW some \in BOOLEAN, ToolsListed(e, some) PROVE IInv'
        BY <2>6, ToolsListedStep
    <2>7. ASSUME NEW e \in Entries, Connected(e) PROVE IInv'
        BY <2>7, ConnectedStep
    <2>8. ASSUME NEW e \in Entries, Closed(e) PROVE IInv'
        BY <2>8, ClosedStep
    <2>9. CASE Shutdown
        BY <2>9, ShutdownStep
    <2>10. CASE UNCHANGED vars
        BY <2>10 DEF vars, entryVars, IInv, TypeOK, EntryInv, RegistryInv, LeftInv, Quiet, Held,
                     Live, UpInv, Answers, Stray, Entries
    <2>. QED
        BY <2>1, <2>2, <2>3, <2>4, <2>5, <2>6, <2>7, <2>8, <2>9, <2>10 DEF Next
<1>. QED
    BY InitInv, <1>1, PTL DEF Spec

\* The maps, the entries and the sets keep their shapes.
THEOREM TypeCorrect == Spec => []TypeOK
<1>1. IInv => TypeOK
    BY DEF IInv
<1>. QED
    BY Invariance, <1>1, PTL

\* At every moment before shutdown() an advertised name has a server in the map
\* that is being removed, or whose transport is open and whose tools, or a
\* stray's, are registered: for every name, raced or not.
THEOREM AdvertisedCorrect == Spec => []AdvertisedReachesServer
<1>1. IInv => AdvertisedReachesServer
    BY DEF IInv, TypeOK, UpInv, Answers, AdvertisedReachesServer
<1>. QED
    BY Invariance, <1>1, PTL

\* What was stopped, removed or shut down keeps a transport only from a
\* handshake it was stopped in, and tools only from a connect() it was stopped
\* in, unless another entry's removal displaced it.
THEOREM LeftoversCorrect == Spec => []LeftoversAreRaces
<1>1. IInv => LeftoversAreRaces
    <2>. SUFFICES ASSUME IInv, NEW e \in Entries, e \notin Held, e \notin displaced
                  PROVE  /\ link[e] => cutAt[e] = "handshake"
                         /\ (\E n \in Names : registry[n] = e) => cutAt[e] # "none"
        BY DEF LeftoversAreRaces
    <2>1. Quiet(e)
        BY DEF IInv, LeftInv
    <2>2. ASSUME NEW n \in Names, registry[n] = e
          PROVE  registered[e]
        BY <2>2, McpAssumption DEF IInv, RegistryInv, Entries
    <2>. QED
        BY <2>1, <2>2 DEF Quiet
<1>. QED
    BY Invariance, <1>1, PTL

=============================================================================
