---------------------------- MODULE AgentRegistry ----------------------------
(***************************************************************************)
(* The table of agents (agent.go, startAgentDiscoverer in server.go).      *)
(* Requests and the 30-second discoverer ask drop_server who answers under *)
(* an address and write the answer down: find a row, update or create it,  *)
(* delete duplicates.  No unique index and no transaction holds these      *)
(* statements together.                                                    *)
(***************************************************************************)
EXTENDS Naturals, FiniteSets

CONSTANTS
  Addresses, Agents,   \* addresses, identities of agents
  Local, Configured,   \* 127.0.0.1, AGENT_DISCOVERY_EXTRA_IPS
  Workers,             \* requests and the discoverer
  MaxRows, MaxMoves

VARIABLES
  at,      \* the agent that answers under an address, NoAgent: none does
  rows,    \* agent_infos
  lastId,  \* the newest primary key
  job,     \* what each worker is doing
  moves,   \* how often agents came, went or moved
  detailed \* agents named by a detail view and not cleaned up since

registryvars == <<at, rows, lastId, job, moves, detailed>>

NoAgent == "none"
OldAgent == ""        \* answers without an agent_id
ASSUME AgentsAssumption == OldAgent \notin Agents
Row(id) == CHOOSE row \in rows : row.id = id
Ids == {row.id : row \in rows}
NoJob == [step |-> "idle", kind |-> "none", todo |-> {}, ip |-> "",
          agent |-> NoAgent, id |-> 0]

RegistryInit ==
  /\ at = [ip \in Addresses |-> NoAgent]
  /\ rows = {} /\ lastId = 0 /\ moves = 0 /\ detailed = {}
  /\ job = [w \in Workers |-> NoJob]

\* An agent starts, stops, changes its address or loses its identity.
AgentMoves(ip, agent) ==
  /\ moves < MaxMoves /\ at[ip] # agent
  /\ \A other \in Addresses \ {ip} : agent \in Agents => at[other] # agent
  /\ at' = [at EXCEPT ![ip] = agent] /\ moves' = moves + 1
  /\ UNCHANGED <<rows, lastId, job, detailed>>

\* ListAgents reads the rows to refresh them, or asks all addresses tasks have
\* named when there is none (discoverAgents); the discoverer asks for the local,
\* the configured and the rows' addresses; StatAgent for one.
Begin(w, kind, ips) ==
  /\ job[w].step = "idle"
  /\ job' = [job EXCEPT ![w] = [NoJob EXCEPT !.step = "next", !.kind = kind, !.todo = ips]]
  /\ UNCHANGED <<at, rows, lastId, moves, detailed>>

ListAgents(w) ==
  IF rows = {} THEN Begin(w, "discover", Addresses) ELSE Begin(w, "list", {row.ip : row \in rows})
AgentDiscoverer(w) ==
  Begin(w, "discoverer", {Local} \cup Configured \cup {row.ip : row \in rows})
StatAgent(w, ip) == Begin(w, "stat", {ip})

\* drop_server does not answer for the address: ListAgents and the discoverer
\* put rows offline, and both discoveries look for a placeholder.
StatFails(w, ip) ==
  LET here == {row \in rows : row.ip = ip}
      down == CASE job[w].kind = "list" -> here
                [] job[w].kind = "discoverer" ->
                     {row \in here : \A other \in here : row.id <= other.id}
                [] OTHER -> {}
      missing == job[w].kind \in {"discover", "discoverer"} /\ ip \in Configured /\ here = {}
  IN  /\ job[w].step = "next" /\ ip \in job[w].todo
      /\ rows' = (rows \ down) \cup {[row EXCEPT !.online = FALSE] : row \in down}
      /\ job' = [job EXCEPT ![w] = [@ EXCEPT !.todo = job[w].todo \ {ip},
                                               !.ip = IF missing THEN ip ELSE "",
                                               !.step = IF missing THEN "placeholder" ELSE "next"]]
      /\ UNCHANGED <<at, lastId, moves, detailed>>

\* ensureAgentDiscoveryPlaceholder creates the row it did not find.
CreatePlaceholder(w) ==
  /\ job[w].step = "placeholder" /\ lastId < MaxRows
  /\ lastId' = lastId + 1
  /\ rows' = rows \cup {[id |-> lastId', ip |-> job[w].ip, agent |-> OldAgent,
                         online |-> FALSE]}
  /\ job' = [job EXCEPT ![w] = [@ EXCEPT !.step = "next", !.ip = ""]]
  /\ UNCHANGED <<at, moves, detailed>>

StatAnswers(w, ip) ==
  /\ job[w].step = "next" /\ ip \in job[w].todo /\ at[ip] # NoAgent
  /\ job' = [job EXCEPT ![w] = [@ EXCEPT !.step = "find", !.todo = job[w].todo \ {ip},
                                           !.ip = ip, !.agent = at[ip], !.id = 0]]
  /\ UNCHANGED <<at, rows, lastId, moves, detailed>>

\* upsertAgentFromStat: the row with the agent_id, or else the row of the address
\* that has none, ...
Find(w) ==
  LET same == {row \in rows : job[w].agent # OldAgent /\ row.agent = job[w].agent}
      blank == {row \in rows : row.ip = job[w].ip /\ row.agent = OldAgent}
      found == IF same # {} THEN same ELSE blank
  IN  /\ job[w].step = "find"
      /\ \/ /\ found = {}
            /\ job' = [job EXCEPT ![w] = [@ EXCEPT !.step = "create"]]
         \/ \E first \in found :
              /\ \A other \in found : first.id <= other.id
              /\ job' = [job EXCEPT ![w] = [@ EXCEPT !.step = "update", !.id = first.id]]
      /\ UNCHANGED <<at, rows, lastId, moves, detailed>>

\* ... is updated (a row deleted meanwhile is not, and nobody notices), ...
Update(w) ==
  /\ job[w].step = "update"
  /\ rows' = {IF row.id = job[w].id
              THEN [row EXCEPT !.ip = job[w].ip, !.online = TRUE,
                               !.agent = IF job[w].agent = OldAgent THEN @ ELSE job[w].agent]
              ELSE row : row \in rows}
  /\ job' = [job EXCEPT ![w] = [@ EXCEPT !.step = "clean"]]
  /\ UNCHANGED <<at, lastId, moves, detailed>>

\* Mutant: a row that was created is not cleaned up after.
CreateOnly(w) ==
  /\ job[w].step = "create" /\ lastId < MaxRows
  /\ lastId' = lastId + 1
  /\ rows' = rows \cup {[id |-> lastId', ip |-> job[w].ip, agent |-> job[w].agent,
                         online |-> TRUE]}
  /\ job' = [job EXCEPT ![w] = [@ EXCEPT !.step = "next", !.ip = "", !.agent = NoAgent]]
  /\ UNCHANGED <<at, moves, detailed>>

\* ... or one is created, ...
CreateRow(w) ==
  /\ job[w].step = "create" /\ lastId < MaxRows
  /\ lastId' = lastId + 1
  /\ rows' = rows \cup {[id |-> lastId', ip |-> job[w].ip, agent |-> job[w].agent,
                         online |-> TRUE]}
  /\ job' = [job EXCEPT ![w] = [@ EXCEPT !.step = "clean", !.id = lastId']]
  /\ UNCHANGED <<at, moves, detailed>>

\* ... and cleanupDuplicateAgentRows deletes every other row of the agent or of
\* the address, if the row in hand has an agent_id.
Cleanup(w) ==
  LET mine == IF job[w].id \in Ids THEN Row(job[w].id)
              ELSE [id |-> job[w].id, ip |-> job[w].ip, agent |-> job[w].agent]
  IN  /\ job[w].step = "clean"
      /\ rows' = IF mine.agent = OldAgent THEN rows
                 ELSE {row \in rows : \/ row.id = mine.id
                                      \/ row.agent # mine.agent /\ row.ip # mine.ip}
      /\ detailed' = detailed \ {mine.agent}
      /\ job' = [job EXCEPT ![w] = [NoJob EXCEPT !.step = "next", !.kind = job[w].kind,
                                                !.todo = job[w].todo]]
      /\ UNCHANGED <<at, lastId, moves>>

\* GetAgentDetail refreshes the row of an address by its key and cleans nothing.
GetAgentDetail(w, ip) ==
  /\ job[w].step = "idle" /\ at[ip] # NoAgent
  /\ \E row \in rows :
       /\ row.ip = ip
       /\ job' = [job EXCEPT ![w] = [NoJob EXCEPT !.step = "detail", !.id = row.id,
                                                !.agent = at[ip]]]
  /\ UNCHANGED <<at, rows, lastId, moves, detailed>>

DetailWrites(w) ==
  /\ job[w].step = "detail"
  /\ rows' = {IF row.id = job[w].id
              THEN [row EXCEPT !.online = TRUE,
                               !.agent = IF job[w].agent = OldAgent THEN @ ELSE job[w].agent]
              ELSE row : row \in rows}
  /\ detailed' = detailed \cup ({job[w].agent} \cap Agents)
  /\ job' = [job EXCEPT ![w] = NoJob]
  /\ UNCHANGED <<at, lastId, moves>>

End(w) ==
  /\ job[w].step = "next" /\ job[w].todo = {}
  /\ job' = [job EXCEPT ![w] = NoJob]
  /\ UNCHANGED <<at, rows, lastId, moves, detailed>>

RegistryNext ==
  \/ \E ip \in Addresses, agent \in Agents \cup {NoAgent, OldAgent} : AgentMoves(ip, agent)
  \/ \E w \in Workers :
       \/ ListAgents(w) \/ AgentDiscoverer(w) \/ CreatePlaceholder(w) \/ Find(w) \/ Update(w)
       \/ CreateRow(w) \/ Cleanup(w) \/ DetailWrites(w) \/ End(w)
       \/ \E ip \in Addresses : \/ StatAgent(w, ip) \/ StatFails(w, ip) \/ StatAnswers(w, ip)
                                \/ GetAgentDetail(w, ip)

RegistrySpec == RegistryInit /\ [][RegistryNext]_registryvars

---------------------------------------------------------------------------
Settled == \A w \in Workers : job[w].step # "clean"

(* Two rows with the same agent_id do not outlive the request that made      *)
(* them: once no upsert is between its write and its cleanup, each identity  *)
(* has at most one row, however many upserts ran side by side.  Only the     *)
(* detail view, which writes the identity and cleans nothing, leaves a       *)
(* second one, until the next upsert of that agent.                          *)
OneRowPerAgent ==
  Settled => \A row, other \in rows :
               row.agent = other.agent /\ row.agent \in Agents \ detailed => row = other
=============================================================================
