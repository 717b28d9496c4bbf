---------------------------- MODULE ControlProofs ----------------------------
(***************************************************************************)
(* Four components of the control plane.  Two rows of one agent are always *)
(* the doing of an upsert that has not reached its cleanup, for any number *)
(* of workers, addresses, agents and moves (AgentRegistry).  A slot of a   *)
(* plan gives at most one task, for any number of plans, processes and     *)
(* threads, crashes included (Schedules).  A composite task is DONE only   *)
(* when its children earned it, whatever refreshes overlap                 *)
(* (CompositeTasks).  A rule keeps its cooldown unless a firing was never  *)
(* written down, for any rules, values and crashes (Detection).            *)
(***************************************************************************)
EXTENDS AgentRegistry, Schedules, CompositeTasks, Detection, FiniteSetTheorems, TLAPS

-----------------------------------------------------------------------------
(* Rows of agents *)

AgentRows == [id : Nat, ip : Addresses \cup {""}, agent : Agents \cup {NoAgent, OldAgent},
         online : BOOLEAN]
Steps == {"idle", "next", "placeholder", "find", "update", "create", "clean", "detail"}
Kinds == {"none", "list", "discover", "discoverer", "stat"}
Todos == SUBSET (Addresses \cup Configured \cup {Local, ""})
Jobs == [step : Steps, kind : Kinds, todo : Todos, ip : Addresses \cup {""},
          agent : Agents \cup {NoAgent, OldAgent}, id : Nat]

RegistryTypeOK ==
  /\ at \in [Addresses -> Agents \cup {NoAgent, OldAgent}]
  /\ rows \in SUBSET AgentRows
  /\ lastId \in Nat
  /\ job \in [Workers -> Jobs]

\* The primary key.
IdsAreKeys ==
  /\ \A row \in rows : row.id <= lastId
  /\ \A row, other \in rows : row.id = other.id => row = other

\* Of two rows of one agent an upsert holds one, and will delete the other.
DuplicatesAreHeld ==
  \A row, other \in rows :
    row # other /\ row.agent = other.agent /\ row.agent \in Agents \ detailed =>
      \E w \in Workers : job[w].step = "clean" /\ job[w].id \in {row.id, other.id}

RegistryInv == RegistryTypeOK /\ IdsAreKeys /\ DuplicatesAreHeld

\* A worker at rest.
LEMMA IdleType == NoJob \in Jobs
BY DEF NoJob, Jobs, Steps, Kinds, Todos, NoAgent, OldAgent

\* The table is empty at first.
LEMMA RegistryInvInit == RegistryInit => RegistryInv
BY IdleType DEF RegistryInit, RegistryInv, RegistryTypeOK, IdsAreKeys, DuplicatesAreHeld, NoAgent,
                OldAgent

\* A worker that is not at its cleanup changes nothing but its own record.
LEMMA OwnStep ==
  ASSUME RegistryInv, NEW w \in Workers, NEW new \in Jobs, job' = [job EXCEPT ![w] = new],
         job[w].step # "clean", UNCHANGED <<at, rows, lastId, detailed>>
  PROVE  RegistryInv'
<1>1. RegistryTypeOK' /\ IdsAreKeys'
  BY DEF RegistryInv, RegistryTypeOK, IdsAreKeys
<1>2. \A v \in Workers : job[v].step = "clean" => job'[v] = job[v]
  BY DEF RegistryInv, RegistryTypeOK
<1>3. DuplicatesAreHeld'
  BY <1>2 DEF RegistryInv, DuplicatesAreHeld
<1> QED
  BY <1>1, <1>3 DEF RegistryInv

\* A worker that is not at its cleanup changes rows: each row has the agent it had,
\* or is the one the worker will clean up after, or has no agent that counts.
LEMMA RowsStep ==
  ASSUME RegistryInv, NEW w \in Workers, NEW new \in Jobs, job' = [job EXCEPT ![w] = new],
         job[w].step # "clean", detailed \subseteq detailed',
         rows' \in SUBSET AgentRows, lastId' \in Nat, at' = at,
         IdsAreKeys',
         \A row \in rows' : \/ \E old \in rows : old.id = row.id /\ old.agent = row.agent
                            \/ new.step = "clean" /\ new.id = row.id
                            \/ row.agent \notin Agents \ detailed'
  PROVE  RegistryInv'
<1>1. RegistryTypeOK'
  BY DEF RegistryInv, RegistryTypeOK
<1>2. job'[w] = new /\ \A v \in Workers : job[v].step = "clean" => job'[v] = job[v]
  BY DEF RegistryInv, RegistryTypeOK
<1>3. ASSUME NEW row \in rows', NEW other \in rows', row # other, row.agent = other.agent,
             row.agent \in Agents \ detailed'
      PROVE  \E v \in Workers : job'[v].step = "clean" /\ job'[v].id \in {row.id, other.id}
  <2>1. CASE new.step = "clean" /\ new.id \in {row.id, other.id}
    BY <1>2, <2>1
  <2>2. CASE ~(new.step = "clean" /\ new.id \in {row.id, other.id})
    <3>1. PICK r \in rows : r.id = row.id /\ r.agent = row.agent
      BY <1>3, <2>2
    <3>2. PICK o \in rows : o.id = other.id /\ o.agent = other.agent
      BY <1>3, <2>2
    <3>3. r # o
      BY <1>3, <3>1, <3>2 DEF IdsAreKeys
    <3>4. PICK v \in Workers : job[v].step = "clean" /\ job[v].id \in {r.id, o.id}
      BY <1>3, <3>1, <3>2, <3>3 DEF RegistryInv, DuplicatesAreHeld
    <3> QED
      BY <1>2, <3>1, <3>2, <3>4
  <2> QED
    BY <2>1, <2>2
<1>4. DuplicatesAreHeld'
  BY <1>3 DEF DuplicatesAreHeld
<1> QED
  BY <1>1, <1>4 DEF RegistryInv

\* A request or the discoverer begins.
LEMMA BeginInv ==
  ASSUME RegistryInv, NEW w \in Workers, NEW kind \in Kinds, NEW ips \in Todos, Begin(w, kind, ips)
  PROVE  RegistryInv'
<1> DEFINE new == [NoJob EXCEPT !.step = "next", !.kind = kind, !.todo = ips]
<1>1. new \in Jobs
  BY Zenon DEF NoJob, Jobs, Steps, NoAgent, OldAgent
<1>2. /\ job' = [job EXCEPT ![w] = new] /\ job[w].step # "clean"
      /\ UNCHANGED <<at, rows, lastId, detailed>>
  BY DEF Begin
<1> HIDE DEF new
<1> QED
  BY Zenon, <1>1, <1>2, OwnStep

\* ListAgents, the discoverer and StatAgent choose the addresses to ask for.
LEMMA ChooseInv ==
  ASSUME RegistryInv, NEW w \in Workers,
         ListAgents(w) \/ AgentDiscoverer(w) \/ \E ip \in Addresses : StatAgent(w, ip)
  PROVE  RegistryInv'
<1>1. /\ {row.ip : row \in rows} \in Todos /\ Addresses \in Todos
      /\ {Local} \cup Configured \cup {row.ip : row \in rows} \in Todos
      /\ \A ip \in Addresses : {ip} \in Todos
  BY Zenon DEF RegistryInv, RegistryTypeOK, AgentRows, Todos
<1>2. {"list", "discover", "discoverer", "stat"} \subseteq Kinds
  BY DEF Kinds
<1> QED
  BY Zenon, <1>1, <1>2, BeginInv DEF ListAgents, AgentDiscoverer, StatAgent

\* drop_server answers for an address.
LEMMA StatAnswersInv ==
  ASSUME RegistryInv, NEW w \in Workers, NEW ip \in Addresses, StatAnswers(w, ip)
  PROVE  RegistryInv'
<1> DEFINE new == [job[w] EXCEPT !.step = "find", !.todo = job[w].todo \ {ip}, !.ip = ip,
                                  !.agent = at[ip], !.id = 0]
<1>1. job[w] \in Jobs /\ at[ip] \in Agents \cup {NoAgent, OldAgent}
  BY DEF RegistryInv, RegistryTypeOK
<1>2. new \in Jobs
  BY Zenon, <1>1 DEF Jobs, Steps, Todos
<1>3. /\ job' = [job EXCEPT ![w] = new] /\ job[w].step # "clean"
      /\ UNCHANGED <<at, rows, lastId, detailed>>
  BY DEF StatAnswers
<1> HIDE DEF new
<1> QED
  BY Zenon, <1>2, <1>3, OwnStep

\* upsertAgentFromStat looks for its row.
LEMMA FindInv ==
  ASSUME RegistryInv, NEW w \in Workers, Find(w)
  PROVE  RegistryInv'
<1>1. /\ job[w] \in Jobs /\ job[w].step # "clean"
      /\ UNCHANGED <<at, rows, lastId, detailed>>
  BY Zenon DEF RegistryInv, RegistryTypeOK, Find
<1>2. \/ job' = [job EXCEPT ![w] = [job[w] EXCEPT !.step = "create"]]
      \/ \E row \in rows :
           job' = [job EXCEPT ![w] = [job[w] EXCEPT !.step = "update", !.id = row.id]]
  BY Zenon DEF Find
<1>3. [job[w] EXCEPT !.step = "create"] \in Jobs
  BY Zenon, <1>1 DEF Jobs, Steps
<1>4. \A row \in rows : [job[w] EXCEPT !.step = "update", !.id = row.id] \in Jobs
  <2>1. \A row \in rows : row.id \in Nat
    BY Zenon DEF RegistryInv, RegistryTypeOK, AgentRows
  <2> QED
    BY Zenon, <1>1, <2>1 DEF Jobs, Steps
<1> QED
  BY Zenon, <1>1, <1>2, <1>3, <1>4, OwnStep

\* GetAgentDetail chooses its row.
LEMMA GetAgentDetailInv ==
  ASSUME RegistryInv, NEW w \in Workers, NEW ip \in Addresses, GetAgentDetail(w, ip)
  PROVE  RegistryInv'
<1>1. PICK row \in rows :
        job' = [job EXCEPT ![w] = [NoJob EXCEPT !.step = "detail", !.id = row.id, !.agent = at[ip]]]
  BY Zenon DEF GetAgentDetail
<1> DEFINE new == [NoJob EXCEPT !.step = "detail", !.id = row.id, !.agent = at[ip]]
<1>2. row.id \in Nat /\ at[ip] \in Agents \cup {NoAgent, OldAgent}
  BY Zenon DEF RegistryInv, RegistryTypeOK, AgentRows
<1>3. new \in Jobs
  BY Zenon, <1>2, IdleType DEF Jobs, Steps
<1> HIDE DEF new
<1>4. job[w].step # "clean" /\ UNCHANGED <<at, rows, lastId, detailed>>
  BY DEF GetAgentDetail
<1> QED
  BY Zenon, <1>1, <1>3, <1>4, OwnStep DEF new

\* A worker has asked for every address.
LEMMA EndInv ==
  ASSUME RegistryInv, NEW w \in Workers, End(w)
  PROVE  RegistryInv'
BY Zenon, IdleType, OwnStep DEF End

\* drop_server does not answer, and rows are put offline.
LEMMA StatFailsInv ==
  ASSUME RegistryInv, NEW w \in Workers, NEW ip \in Addresses, StatFails(w, ip)
  PROVE  RegistryInv'
<1>1. PICK down \in SUBSET rows, missing \in BOOLEAN :
        /\ rows' = (rows \ down) \cup {[row EXCEPT !.online = FALSE] : row \in down}
        /\ job' = [job EXCEPT ![w] = [job[w] EXCEPT !.todo = job[w].todo \ {ip},
                                          !.ip = IF missing THEN ip ELSE "",
                                          !.step = IF missing THEN "placeholder" ELSE "next"]]
  <2> DEFINE here == {row \in rows : row.ip = ip}
             down == CASE job[w].kind = "list" -> here
                       [] job[w].kind = "discoverer" ->
                            {row \in here : \A other \in here : row.id <= other.id}
                       [] OTHER -> {}
             missing == job[w].kind \in {"discover", "discoverer"} /\ ip \in Configured /\ here = {}
  <2>1. down \in SUBSET rows
    <3>1. CASE job[w].kind = "list"
      BY <3>1
    <3>2. CASE job[w].kind = "discoverer"
      BY <3>2
    <3>3. CASE job[w].kind \notin {"list", "discoverer"}
      BY <3>3
    <3> QED
      BY <3>1, <3>2, <3>3
  <2>2. missing \in BOOLEAN
    OBVIOUS
  <2>3. /\ rows' = (rows \ down) \cup {[row EXCEPT !.online = FALSE] : row \in down}
        /\ job' = [job EXCEPT ![w] = [job[w] EXCEPT !.todo = job[w].todo \ {ip},
                                          !.ip = IF missing THEN ip ELSE "",
                                          !.step = IF missing THEN "placeholder" ELSE "next"]]
    BY DEF StatFails, RegistryInv, RegistryTypeOK
  <2> HIDE DEF down, missing
  <2> QED
    BY Zenon, <2>1, <2>2, <2>3
<1> DEFINE new == [job[w] EXCEPT !.todo = job[w].todo \ {ip},
                                  !.ip = IF missing THEN ip ELSE "",
                                  !.step = IF missing THEN "placeholder" ELSE "next"]
<1>2. new \in Jobs
  <2>1. job[w] \in Jobs
    BY DEF RegistryInv, RegistryTypeOK
  <2> QED
    BY Zenon, <2>1 DEF Jobs, Steps, Todos
<1> HIDE DEF new
<1>3. \A row \in rows : /\ row \in AgentRows /\ [row EXCEPT !.online = FALSE] \in AgentRows
                        /\ [row EXCEPT !.online = FALSE].id = row.id
                        /\ [row EXCEPT !.online = FALSE].agent = row.agent
  BY Zenon DEF RegistryInv, RegistryTypeOK, AgentRows
<1>4. \A row \in rows' : \E old \in rows :
         /\ old.id = row.id /\ old.agent = row.agent
         /\ \/ row = old /\ old \notin down
            \/ row = [old EXCEPT !.online = FALSE] /\ old \in down
  BY Zenon, <1>1, <1>3
<1>5. rows' \in SUBSET AgentRows
  BY Zenon, <1>3, <1>4
<1>6. /\ job' = [job EXCEPT ![w] = new] /\ job[w].step # "clean"
      /\ at' = at /\ lastId' = lastId /\ detailed' = detailed /\ lastId \in Nat
  BY Zenon, <1>1 DEF StatFails, new, RegistryInv, RegistryTypeOK
<1>7. IdsAreKeys'
  <2>1. \A row \in rows' : row.id <= lastId'
    BY <1>4, <1>6 DEF RegistryInv, IdsAreKeys
  <2>2. ASSUME NEW row \in rows', NEW other \in rows', row.id = other.id
        PROVE  row = other
    <3>1. PICK r \in rows : /\ r.id = row.id
                           /\ \/ row = r /\ r \notin down
                              \/ row = [r EXCEPT !.online = FALSE] /\ r \in down
      BY <1>4
    <3>2. PICK o \in rows : /\ o.id = other.id
                           /\ \/ other = o /\ o \notin down
                              \/ other = [o EXCEPT !.online = FALSE] /\ o \in down
      BY <1>4
    <3>3. r = o
      BY <2>2, <3>1, <3>2 DEF RegistryInv, IdsAreKeys
    <3> QED
      BY Zenon, <3>1, <3>2, <3>3
  <2> QED
    BY <2>1, <2>2 DEF IdsAreKeys
<1>8. \A row \in rows' : \E old \in rows : old.id = row.id /\ old.agent = row.agent
  BY <1>4
<1> QED
  BY Zenon, <1>2, <1>5, <1>6, <1>7, <1>8, RowsStep

\* A new row, under the next primary key.
LEMMA NewRow ==
  ASSUME RegistryInv, NEW row \in AgentRows, row.id = lastId + 1, lastId' = lastId + 1,
         rows' = rows \cup {row}
  PROVE  /\ rows' \in SUBSET AgentRows /\ lastId' \in Nat /\ IdsAreKeys'
         /\ \A r \in rows' : r \in rows \/ r = row
<1>1. rows' \in SUBSET AgentRows /\ lastId \in Nat /\ \A r \in rows : r.id \in Nat
  BY Zenon DEF RegistryInv, RegistryTypeOK, AgentRows
<1>2. \A r \in rows : r.id <= lastId /\ r.id # row.id
  BY <1>1 DEF RegistryInv, IdsAreKeys
<1> QED
  BY <1>1, <1>2 DEF RegistryInv, IdsAreKeys

\* ensureAgentDiscoveryPlaceholder creates a row without an agent.
LEMMA CreatePlaceholderInv ==
  ASSUME RegistryInv, OldAgent \notin Agents, NEW w \in Workers, CreatePlaceholder(w)
  PROVE  RegistryInv'
<1> DEFINE row == [id |-> lastId + 1, ip |-> job[w].ip, agent |-> OldAgent, online |-> FALSE]
           new == [job[w] EXCEPT !.step = "next", !.ip = ""]
<1>1. job[w] \in Jobs /\ lastId \in Nat
  BY DEF RegistryInv, RegistryTypeOK
<1>2. row \in AgentRows /\ row.id = lastId + 1 /\ row.agent = OldAgent
  <2>1. job[w].ip \in Addresses \cup {""}
    BY Zenon, <1>1 DEF Jobs
  <2>2. lastId + 1 \in Nat
    BY <1>1
  <2> QED
    BY Zenon, <2>1, <2>2 DEF AgentRows
<1>3. new \in Jobs
  BY Zenon, <1>1 DEF Jobs, Steps
<1>4. /\ lastId' = lastId + 1 /\ rows' = rows \cup {row}
      /\ job' = [job EXCEPT ![w] = new] /\ job[w].step # "clean"
      /\ at' = at /\ detailed' = detailed
  BY DEF CreatePlaceholder
<1> HIDE DEF row, new
<1>5. /\ rows' \in SUBSET AgentRows /\ lastId' \in Nat /\ IdsAreKeys'
      /\ \A r \in rows' : r \in rows \/ r = row
  BY <1>2, <1>4, NewRow
<1>6. \A r \in rows' : \/ \E old \in rows : old.id = r.id /\ old.agent = r.agent
                       \/ r.agent \notin Agents \ detailed'
  BY <1>2, <1>5
<1> QED
  BY Zenon, <1>3, <1>4, <1>5, <1>6, RowsStep

\* upsertAgentFromStat creates the row that it will clean up after.
LEMMA CreateInv ==
  ASSUME RegistryInv, NEW w \in Workers, CreateRow(w)
  PROVE  RegistryInv'
<1> DEFINE row == [id |-> lastId + 1, ip |-> job[w].ip, agent |-> job[w].agent, online |-> TRUE]
           new == [job[w] EXCEPT !.step = "clean", !.id = lastId + 1]
<1>1. job[w] \in Jobs /\ lastId \in Nat
  BY DEF RegistryInv, RegistryTypeOK
<1>2. /\ job[w].ip \in Addresses \cup {""} /\ lastId + 1 \in Nat
      /\ job[w].agent \in Agents \cup {NoAgent, OldAgent}
  <2>1. lastId + 1 \in Nat
    BY <1>1
  <2> QED
    BY Zenon, <1>1, <2>1 DEF Jobs
<1>3. /\ row \in AgentRows /\ row.id = lastId + 1
      /\ new \in Jobs /\ new.step = "clean" /\ new.id = lastId + 1
  <2>1. row \in AgentRows /\ row.id = lastId + 1
    BY Zenon, <1>2 DEF AgentRows
  <2>2. "clean" \in Steps
    BY DEF Steps
  <2>3. new \in Jobs
    BY Zenon, <1>1, <1>2, <2>2 DEF Jobs
  <2>4. new.step = "clean" /\ new.id = lastId + 1
    BY Zenon, <1>1 DEF Jobs
  <2> QED
    BY <2>1, <2>3, <2>4
<1>4. /\ lastId' = lastId + 1 /\ rows' = rows \cup {row}
      /\ job' = [job EXCEPT ![w] = new] /\ job[w].step # "clean"
      /\ at' = at /\ detailed' = detailed
  BY DEF CreateRow
<1> HIDE DEF row, new
<1>5. /\ rows' \in SUBSET AgentRows /\ lastId' \in Nat /\ IdsAreKeys'
      /\ \A r \in rows' : r \in rows \/ r = row
  BY <1>3, <1>4, NewRow
<1>6. \A r \in rows' : \/ \E old \in rows : old.id = r.id /\ old.agent = r.agent
                       \/ new.step = "clean" /\ new.id = r.id
  BY <1>3, <1>5
<1> QED
  BY Zenon, <1>3, <1>4, <1>5, <1>6, RowsStep

\* Rows are rewritten one by one, each under its key.
LEMMA Rewritten ==
  ASSUME RegistryInv, NEW f \in [rows -> AgentRows], \A row \in rows : f[row].id = row.id,
         rows' = {f[row] : row \in rows}, lastId' = lastId
  PROVE  /\ rows' \in SUBSET AgentRows /\ lastId' \in Nat /\ IdsAreKeys'
         /\ \A row \in rows' : \E old \in rows : row = f[old] /\ old.id = row.id
BY DEF RegistryInv, RegistryTypeOK, IdsAreKeys

\* upsertAgentFromStat updates the row that it will clean up after.
LEMMA UpdateInv ==
  ASSUME RegistryInv, NEW w \in Workers, Update(w)
  PROVE  RegistryInv'
<1> DEFINE agent == job[w].agent
           written(row) == [row EXCEPT !.ip = job[w].ip, !.online = TRUE,
                                       !.agent = IF agent = OldAgent THEN row.agent ELSE agent]
           f == [row \in rows |-> IF row.id = job[w].id THEN written(row) ELSE row]
           new == [job[w] EXCEPT !.step = "clean"]
<1>1. job[w] \in Jobs /\ rows \in SUBSET AgentRows
  BY DEF RegistryInv, RegistryTypeOK
<1>2. job[w].ip \in Addresses \cup {""} /\ agent \in Agents \cup {NoAgent, OldAgent}
  BY Zenon, <1>1 DEF Jobs
<1>3. \A row \in rows : written(row) \in AgentRows /\ written(row).id = row.id
  BY Zenon, <1>1, <1>2 DEF AgentRows
<1>4. /\ rows' = {f[row] : row \in rows} /\ lastId' = lastId
      /\ job' = [job EXCEPT ![w] = new] /\ job[w].step # "clean"
      /\ at' = at /\ detailed' = detailed
  BY Zenon DEF Update
<1>5. new \in Jobs /\ new.step = "clean" /\ new.id = job[w].id
  BY Zenon, <1>1 DEF Jobs, Steps
<1>6. \A row \in rows : /\ f[row] \in AgentRows /\ f[row].id = row.id
                        /\ row.id = job[w].id \/ f[row] = row
  BY Zenon, <1>1, <1>3
<1>7. f \in [rows -> AgentRows]
  BY Zenon, <1>6
<1> HIDE DEF f, new
<1>8. /\ rows' \in SUBSET AgentRows /\ lastId' \in Nat /\ IdsAreKeys'
      /\ \A row \in rows' : \E old \in rows : row = f[old] /\ old.id = row.id
  BY <1>4, <1>6, <1>7, Rewritten
<1>9. \A row \in rows' : \/ \E old \in rows : old.id = row.id /\ old.agent = row.agent
                         \/ new.step = "clean" /\ new.id = row.id
  <2> SUFFICES ASSUME NEW row \in rows'
               PROVE  \/ \E old \in rows : old.id = row.id /\ old.agent = row.agent
                      \/ new.step = "clean" /\ new.id = row.id
    OBVIOUS
  <2>1. PICK old \in rows : row = f[old] /\ old.id = row.id
    BY <1>8
  <2> QED
    BY <1>5, <1>6, <2>1
<1>10. detailed \subseteq detailed' /\ at' = at /\ job[w].step # "clean"
  BY <1>4
<1>11. job' = [job EXCEPT ![w] = new]
  BY <1>4
<1> QED
  BY Zenon, <1>5, <1>8, <1>9, <1>10, <1>11, RowsStep

\* GetAgentDetail names an agent and cleans nothing.
LEMMA DetailWritesInv ==
  ASSUME RegistryInv, NEW w \in Workers, DetailWrites(w)
  PROVE  RegistryInv'
<1> DEFINE agent == job[w].agent
           written(row) == [row EXCEPT !.online = TRUE,
                                       !.agent = IF agent = OldAgent THEN row.agent ELSE agent]
           f == [row \in rows |-> IF row.id = job[w].id THEN written(row) ELSE row]
<1>1. job[w] \in Jobs /\ rows \in SUBSET AgentRows
  BY DEF RegistryInv, RegistryTypeOK
<1>2. agent \in Agents \cup {NoAgent, OldAgent}
  BY Zenon, <1>1 DEF Jobs
<1>3. \A row \in rows : /\ written(row) \in AgentRows /\ written(row).id = row.id
                        /\ written(row).agent \in {row.agent, agent}
  BY Zenon, <1>1, <1>2 DEF AgentRows
<1>4. /\ rows' = {f[row] : row \in rows} /\ lastId' = lastId
      /\ job' = [job EXCEPT ![w] = NoJob] /\ job[w].step # "clean"
      /\ at' = at /\ detailed' = detailed \cup ({agent} \cap Agents)
  BY Zenon DEF DetailWrites
<1>5. \A row \in rows : /\ f[row] \in AgentRows /\ f[row].id = row.id
                        /\ f[row].agent = row.agent \/ f[row].agent = agent
  BY Zenon, <1>1, <1>3
<1>6. f \in [rows -> AgentRows]
  BY Zenon, <1>5
<1> HIDE DEF f
<1>7. /\ rows' \in SUBSET AgentRows /\ lastId' \in Nat /\ IdsAreKeys'
      /\ \A row \in rows' : \E old \in rows : row = f[old] /\ old.id = row.id
  BY <1>4, <1>5, <1>6, Rewritten
<1>8. \A row \in rows' : \/ \E old \in rows : old.id = row.id /\ old.agent = row.agent
                         \/ row.agent \notin Agents \ detailed'
  BY <1>4, <1>5, <1>7
<1> QED
  BY Zenon, <1>4, <1>7, <1>8, IdleType, RowsStep

\* The cleanup leaves its agent one row; a pair of another agent was not its own.
LEMMA CleanupInv ==
  ASSUME RegistryInv, OldAgent \notin Agents, NEW w \in Workers, Cleanup(w)
  PROVE  RegistryInv'
<1> DEFINE mine == IF job[w].id \in Ids THEN Row(job[w].id)
                   ELSE [id |-> job[w].id, ip |-> job[w].ip, agent |-> job[w].agent]
           new == [NoJob EXCEPT !.step = "next", !.kind = job[w].kind, !.todo = job[w].todo]
<1>1. /\ job \in [Workers -> Jobs] /\ job[w] \in Jobs /\ rows \in SUBSET AgentRows
      /\ lastId \in Nat
  BY DEF RegistryInv, RegistryTypeOK
<1>2. new \in Jobs
  BY Zenon, <1>1, IdleType DEF Jobs, Steps
<1>3. /\ mine.id = job[w].id
      /\ job[w].id \in Ids => mine \in rows
  <2>1. CASE job[w].id \in Ids
    <3>1. \E row \in rows : row.id = job[w].id
      BY <2>1 DEF Ids
    <3>2. Row(job[w].id) \in rows /\ Row(job[w].id).id = job[w].id
      BY <3>1 DEF Row
    <3> QED
      BY <2>1, <3>2
  <2>2. CASE job[w].id \notin Ids
    BY <2>2
  <2> QED
    BY <2>1, <2>2
<1>4. /\ rows' = IF mine.agent = OldAgent THEN rows
                 ELSE {row \in rows : \/ row.id = mine.id
                                      \/ row.agent # mine.agent /\ row.ip # mine.ip}
      /\ detailed' = detailed \ {mine.agent}
      /\ job' = [job EXCEPT ![w] = new] /\ at' = at /\ lastId' = lastId
  BY DEF Cleanup
<1> HIDE DEF mine, new
<1>5. rows' \subseteq rows
  BY <1>4
<1>6. RegistryTypeOK' /\ IdsAreKeys'
  <2>1. job' \in [Workers -> Jobs]
    BY <1>1, <1>2, <1>4
  <2> QED
    BY <1>4, <1>5, <2>1 DEF RegistryInv, RegistryTypeOK, IdsAreKeys
<1>7. ASSUME NEW row \in rows', NEW other \in rows', row # other, row.agent = other.agent,
             row.agent \in Agents \ detailed'
      PROVE  \E v \in Workers : job'[v].step = "clean" /\ job'[v].id \in {row.id, other.id}
  <2>1. row \in rows /\ other \in rows /\ row.id # other.id
    BY <1>5, <1>6, <1>7 DEF IdsAreKeys
  <2>2. row.agent # mine.agent
    <3> SUFFICES ASSUME row.agent = mine.agent PROVE FALSE
      OBVIOUS
    <3>1. row.id = mine.id /\ other.id = mine.id
      BY <1>4, <1>7
    <3> QED
      BY <2>1, <3>1
  <2>3. row.agent \in Agents \ detailed
    BY <1>4, <1>7, <2>2
  <2>4. PICK v \in Workers : job[v].step = "clean" /\ job[v].id \in {row.id, other.id}
    BY <1>7, <2>1, <2>3 DEF RegistryInv, DuplicatesAreHeld
  <2>5. v # w
    <3> SUFFICES ASSUME v = w PROVE FALSE
      OBVIOUS
    <3>1. job[w].id \in Ids
      BY <2>1, <2>4 DEF Ids
    <3>2. mine = row \/ mine = other
      BY <1>3, <2>1, <2>4, <3>1 DEF RegistryInv, IdsAreKeys
    <3> QED
      BY <1>7, <2>2, <3>2
  <2>6. job'[v] = job[v]
    BY <1>1, <1>4, <2>5
  <2> QED
    BY <2>4, <2>6
<1>8. DuplicatesAreHeld'
  BY <1>7 DEF DuplicatesAreHeld
<1> QED
  BY <1>6, <1>8 DEF RegistryInv

\* Agents come, go and move without the table.
LEMMA AgentMovesInv ==
  ASSUME RegistryInv, NEW ip \in Addresses, NEW agent \in Agents \cup {NoAgent, OldAgent},
         AgentMoves(ip, agent)
  PROVE  RegistryInv'
BY DEF AgentMoves, RegistryInv, RegistryTypeOK, IdsAreKeys, DuplicatesAreHeld

\* Every step keeps the invariant, if no agent has the empty identity.
LEMMA RegistryInvStep == RegistryInv /\ [RegistryNext]_registryvars => RegistryInv'
<1> USE AgentsAssumption
<1> SUFFICES ASSUME RegistryInv, [RegistryNext]_registryvars PROVE RegistryInv'
  OBVIOUS
<1>1. CASE UNCHANGED registryvars
  BY <1>1 DEF registryvars, RegistryInv, RegistryTypeOK, IdsAreKeys, DuplicatesAreHeld
<1>2. CASE \E ip \in Addresses, agent \in Agents \cup {NoAgent, OldAgent} : AgentMoves(ip, agent)
  BY <1>2, AgentMovesInv
<1>3. ASSUME NEW w \in Workers,
             \/ ListAgents(w) \/ AgentDiscoverer(w) \/ CreatePlaceholder(w) \/ Find(w)
             \/ Update(w) \/ CreateRow(w) \/ Cleanup(w) \/ DetailWrites(w) \/ End(w)
      PROVE  RegistryInv'
  BY <1>3, ChooseInv, CreatePlaceholderInv, FindInv, UpdateInv, CreateInv, CleanupInv,
     DetailWritesInv, EndInv
<1>4. ASSUME NEW w \in Workers, NEW ip \in Addresses,
             \/ StatAgent(w, ip) \/ StatFails(w, ip) \/ StatAnswers(w, ip)
             \/ GetAgentDetail(w, ip)
      PROVE  RegistryInv'
  BY <1>4, ChooseInv, StatFailsInv, StatAnswersInv, GetAgentDetailInv
<1> QED
  BY <1>1, <1>2, <1>3, <1>4 DEF RegistryNext

\* Whatever requests and the discoverer do side by side, an identity has more than one
\* row only while an upsert is between its write and its cleanup
\* (upsertAgentFromStat, cleanupDuplicateAgentRows); no agent has the empty identity.
THEOREM IdentityHasOneRow == RegistrySpec => []OneRowPerAgent
<1>1. RegistryInv => OneRowPerAgent
  BY DEF RegistryInv, DuplicatesAreHeld, OneRowPerAgent, Settled
<1> QED
  BY <1>1, RegistryInvInit, RegistryInvStep, PTL DEF RegistrySpec

-----------------------------------------------------------------------------
(* Slots of plans *)

\* A thread is at work on a slot from its claim to the last status it writes.
Busy == {"check", "create", "created"}
Holds(t, p, s) == thread[t].step \in Busy /\ thread[t].sid = p /\ thread[t].slot = s

TriggerStatuses == {"none", "claimed", "created", "skipped_low_disk", "skipped_overlap", "failed"}

IsWork(r) == r = [step |-> r.step, due |-> r.due, at |-> r.at, sid |-> r.sid, slot |-> r.slot]

WorkShape ==
  /\ DOMAIN thread = Threads /\ thread = [t \in Threads |-> thread[t]]
  /\ \A t \in Threads : IsWork(thread[t])

Shape ==
  /\ WorkShape
  /\ trigger \in [Plans -> [Slots -> TriggerStatuses]]
  /\ tasks \in [Plans -> [Slots -> Nat]]

\* The thread that holds a slot is the only one, its claim stands, and the slot has a task
\* exactly when the thread has created it.
SlotOK(p, s) ==
  /\ tasks[p][s] <= 1
  /\ trigger[p][s] = "created" => tasks[p][s] = 1
  /\ trigger[p][s] \in {"none", "skipped_low_disk", "skipped_overlap", "failed"} => tasks[p][s] = 0
  /\ \A t \in Threads : Holds(t, p, s) =>
       /\ trigger[p][s] = "claimed"
       /\ tasks[p][s] = IF thread[t].step = "created" THEN 1 ELSE 0
       /\ \A u \in Threads : Holds(u, p, s) => u = t

SlotInv == Shape /\ \A p \in Plans, s \in Slots : SlotOK(p, s)

\* A thread at rest holds no slot.
LEMMA NoWorkFacts == IsWork(NoThread) /\ NoThread.step \notin Busy
BY DEF NoThread, IsWork, Busy

\* No slot is claimed at first.
LEMMA SlotInit == ScheduleInit => SlotInv
<1> SUFFICES ASSUME ScheduleInit PROVE SlotInv
  OBVIOUS
<1>1. /\ DOMAIN thread = Threads /\ thread = [t \in Threads |-> thread[t]]
      /\ \A t \in Threads : thread[t] = NoThread
  BY DEF ScheduleInit
<1>2. WorkShape /\ \A t \in Threads : thread[t].step \notin Busy
  BY <1>1, NoWorkFacts DEF WorkShape
<1>3. /\ trigger \in [Plans -> [Slots -> TriggerStatuses]] /\ tasks \in [Plans -> [Slots -> Nat]]
      /\ \A p \in Plans, s \in Slots : trigger[p][s] = "none" /\ tasks[p][s] = 0
  BY DEF ScheduleInit, TriggerStatuses
<1> QED
  BY <1>2, <1>3 DEF SlotInv, Shape, SlotOK, Holds

\* Nobody takes up a slot, and nothing is written to one.
LEMMA Frame ==
  ASSUME SlotInv, UNCHANGED <<trigger, tasks>>, Shape',
         \A t \in Threads : thread'[t].step \in Busy =>
           /\ thread[t].step \in Busy /\ thread'[t].sid = thread[t].sid
           /\ thread'[t].slot = thread[t].slot
           /\ thread'[t].step = "created" <=> thread[t].step = "created"
  PROVE  SlotInv'
BY DEF SlotInv, SlotOK, Holds

\* A slot that is not written to, and that nobody takes up.
LEMMA SlotKept ==
  ASSUME NEW p \in Plans, NEW s \in Slots, SlotOK(p, s),
         trigger'[p][s] = trigger[p][s], tasks'[p][s] = tasks[p][s],
         \A u \in Threads : Holds(u, p, s)' => Holds(u, p, s) /\ thread'[u] = thread[u]
  PROVE  SlotOK(p, s)'
<1>1. ASSUME NEW u \in Threads, Holds(u, p, s)'
      PROVE  /\ trigger[p][s] = "claimed"
             /\ tasks[p][s] = IF thread'[u].step = "created" THEN 1 ELSE 0
             /\ \A v \in Threads : Holds(v, p, s) => v = u
  <2>1. Holds(u, p, s) /\ thread'[u] = thread[u]
    BY <1>1
  <2> QED
    BY <2>1 DEF SlotOK
<1> QED
  BY <1>1 DEF SlotOK

\* A write to one slot, if there is such a slot.
LEMMA MarkCell ==
  ASSUME SlotInv, NEW t \in Threads, NEW status \in TriggerStatuses, trigger' = Mark(t, status)
  PROVE  /\ trigger' \in [Plans -> [Slots -> TriggerStatuses]]
         /\ \A p \in Plans, s \in Slots :
              trigger'[p][s] = IF p = thread[t].sid /\ s = thread[t].slot THEN status
                               ELSE trigger[p][s]
<1> DEFINE a == thread[t].sid
           b == thread[t].slot
<1>1. /\ trigger \in [Plans -> [Slots -> TriggerStatuses]]
      /\ trigger' = [trigger EXCEPT ![a][b] = status]
  BY DEF Mark, SlotInv, Shape
<1> HIDE DEF a, b
<1>2. /\ trigger' \in [Plans -> [Slots -> TriggerStatuses]]
      /\ \A p \in Plans, s \in Slots :
           trigger'[p][s] = IF p = a /\ s = b THEN status ELSE trigger[p][s]
  <2>1. CASE a \in Plans /\ b \in Slots
    BY <1>1, <2>1
  <2>2. CASE a \in Plans /\ b \notin Slots
    <3>1. [trigger[a] EXCEPT ![b] = status] = trigger[a]
      BY <1>1, <2>2
    <3>2. trigger' = trigger
      BY <1>1, <2>2, <3>1
    <3> QED
      BY Zenon, <1>1, <2>2, <3>2
  <2>3. CASE a \notin Plans
    BY Zenon, <1>1, <2>3
  <2> QED
    BY <2>1, <2>2, <2>3
<1> QED
  BY <1>2 DEF a, b

\* A task is created for one slot, if there is such a slot.
LEMMA TaskCell ==
  ASSUME SlotInv, NEW t \in Threads,
         tasks' = [tasks EXCEPT ![thread[t].sid][thread[t].slot] = @ + 1]
  PROVE  /\ tasks' \in [Plans -> [Slots -> Nat]]
         /\ \A p \in Plans, s \in Slots :
              tasks'[p][s] = IF p = thread[t].sid /\ s = thread[t].slot THEN tasks[p][s] + 1
                             ELSE tasks[p][s]
<1> DEFINE a == thread[t].sid
           b == thread[t].slot
<1>1. tasks \in [Plans -> [Slots -> Nat]] /\ tasks' = [tasks EXCEPT ![a][b] = tasks[a][b] + 1]
  BY DEF SlotInv, Shape
<1> HIDE DEF a, b
<1>2. /\ tasks' \in [Plans -> [Slots -> Nat]]
      /\ \A p \in Plans, s \in Slots :
           tasks'[p][s] = IF p = a /\ s = b THEN tasks[p][s] + 1 ELSE tasks[p][s]
  <2>1. CASE a \in Plans /\ b \in Slots
    BY <1>1, <2>1
  <2>2. CASE a \in Plans /\ b \notin Slots
    <3>1. [tasks[a] EXCEPT ![b] = tasks[a][b] + 1] = tasks[a]
      BY <1>1, <2>2
    <3>2. tasks' = tasks
      BY <1>1, <2>2, <3>1
    <3> QED
      BY Zenon, <1>1, <2>2, <3>2
  <2>3. CASE a \notin Plans
    BY Zenon, <1>1, <2>3
  <2> QED
    BY <2>1, <2>2, <2>3
<1> QED
  BY <1>2 DEF a, b

\* A thread moves on to another step, with the rest of its record or a new one.
LEMMA WorkChanges ==
  ASSUME Shape, NEW t \in Threads, NEW new, IsWork(new), thread' = [thread EXCEPT ![t] = new]
  PROVE  WorkShape' /\ thread'[t] = new /\ \A u \in Threads \ {t} : thread'[u] = thread[u]
<1>1. DOMAIN thread = Threads /\ thread = [u \in Threads |-> thread[u]]
  BY DEF Shape, WorkShape
<1>2. /\ DOMAIN thread' = Threads /\ thread' = [u \in Threads |-> thread'[u]]
      /\ thread'[t] = new /\ \A u \in Threads \ {t} : thread'[u] = thread[u]
  BY <1>1
<1>3. \A u \in Threads : IsWork(thread[u])
  BY DEF Shape, WorkShape
<1>4. \A u \in Threads : IsWork(thread'[u])
  BY <1>2, <1>3
<1> QED
  BY <1>2, <1>4 DEF WorkShape

\* A thread moves on with the rest of its record.
LEMMA StepChanges ==
  ASSUME Shape, NEW t \in Threads, NEW step, thread' = [thread EXCEPT ![t].step = step]
  PROVE  /\ WorkShape' /\ \A u \in Threads \ {t} : thread'[u] = thread[u]
         /\ thread'[t].step = step /\ thread'[t].sid = thread[t].sid
         /\ thread'[t].slot = thread[t].slot
<1> DEFINE old == thread[t]
           new == [old EXCEPT !.step = step]
<1>1. IsWork(old) /\ thread' = [thread EXCEPT ![t] = new]
  BY DEF Shape, WorkShape
<1>2. new = [step |-> step, due |-> old.due, at |-> old.at, sid |-> old.sid, slot |-> old.slot]
  <2> HIDE DEF old
  <2> QED
    BY <1>1 DEF IsWork
<1> HIDE DEF new, old
<1>3. IsWork(new) /\ new.step = step /\ new.sid = old.sid /\ new.slot = old.slot
  BY <1>2 DEF IsWork
<1>4. WorkShape' /\ thread'[t] = new /\ \A u \in Threads \ {t} : thread'[u] = thread[u]
  BY Zenon, <1>1, <1>3, WorkChanges
<1> QED
  BY <1>3, <1>4 DEF old

\* A thread without a slot, or one that leaves it or passes its check, writes to none.
LEMMA ThreadFrame ==
  ASSUME SlotInv, NEW t \in Threads,
         \/ Poll(t) \/ NextDue(t) \/ PollDone(t)
         \/ \E p \in Plans : CronFires(t, p)
         \/ CheckFails(t) \/ Pass(t) \/ AdvancePlan(t)
  PROVE  SlotInv'
<1>1. ASSUME NEW step, step \notin Busy, NEW due, NEW now, NEW sid, NEW slot,
             thread' = [thread EXCEPT ![t] = [step |-> step, due |-> due, at |-> now, sid |-> sid,
                                          slot |-> slot]],
             UNCHANGED <<trigger, tasks>>
      PROVE  SlotInv'
  <2> DEFINE new == [step |-> step, due |-> due, at |-> now, sid |-> sid, slot |-> slot]
  <2>1. IsWork(new) /\ new.step = step
    BY DEF IsWork
  <2> HIDE DEF new
  <2>2. thread' = [thread EXCEPT ![t] = new]
    BY <1>1 DEF new
  <2>3. WorkShape' /\ thread'[t] = new /\ \A u \in Threads \ {t} : thread'[u] = thread[u]
    BY Zenon, <2>1, <2>2, WorkChanges DEF SlotInv
  <2>4. Shape'
    BY <1>1, <2>3 DEF SlotInv, Shape
  <2> QED
    BY <1>1, <2>1, <2>3, <2>4, Frame
<1>2. CASE \/ Poll(t) \/ NextDue(t) \/ PollDone(t)
           \/ \E p \in Plans : CronFires(t, p)
  <2>1. {"idle", "next", "claim"} \cap Busy = {}
    BY DEF Busy
  <2>2. CASE Poll(t)
    <3> DEFINE due == {<<p, plan[p].next>> :
                       p \in {p \in Enabled \ CronPlans : plan[p].next <= clock}}
    <3>1. /\ thread' = [thread EXCEPT ![t] = [step |-> "next", due |-> due, at |-> clock,
                                           sid |-> "none", slot |-> 0]]
          /\ UNCHANGED <<trigger, tasks>>
      BY <2>2 DEF Poll
    <3> HIDE DEF due
    <3> QED
      BY Zenon, <1>1, <2>1, <3>1
  <2>3. CASE NextDue(t)
    <3>1. PICK d \in thread[t].due :
            thread' = [thread EXCEPT ![t] = [step |-> "claim", due |-> thread[t].due \ {d},
                                         at |-> thread[t].at, sid |-> d[1], slot |-> d[2]]]
      BY Zenon, <2>3 DEF NextDue
    <3> QED
      BY Zenon, <1>1, <2>1, <2>3, <3>1 DEF NextDue
  <2>4. CASE PollDone(t)
    BY Zenon, <1>1, <2>1, <2>4 DEF PollDone, NoThread
  <2>5. ASSUME NEW p \in Plans, CronFires(t, p) PROVE SlotInv'
    BY Zenon, <1>1, <2>1, <2>5 DEF CronFires
  <2> QED
    BY <1>2, <2>2, <2>3, <2>4, <2>5
<1>3. CASE CheckFails(t) \/ Pass(t) \/ AdvancePlan(t)
  <2>1. PICK step : /\ thread' = [thread EXCEPT ![t].step = step] /\ UNCHANGED <<trigger, tasks>>
                    /\ step \in Busy => step # "created" /\ thread[t].step = "check"
    BY <1>3 DEF CheckFails, Pass, AdvancePlan, After, Busy
  <2>2. /\ WorkShape' /\ \A u \in Threads \ {t} : thread'[u] = thread[u]
        /\ thread'[t].step = step /\ thread'[t].sid = thread[t].sid
        /\ thread'[t].slot = thread[t].slot
    BY Zenon, <2>1, StepChanges DEF SlotInv
  <2>3. Shape'
    BY <2>1, <2>2 DEF SlotInv, Shape
  <2>4. step \in Busy => thread[t].step \in Busy /\ step # "created" /\ thread[t].step # "created"
    BY <2>1 DEF Busy
  <2> QED
    BY <2>1, <2>2, <2>3, <2>4, Frame
<1> QED
  BY <1>1, <1>2, <1>3

\* Steps of the clock, of requests, of tasks and of processes.
LEMMA OtherFrame ==
  ASSUME SlotInv, MinutePasses \/ RequestStep \/ (\E a \in active : CollectionEnds(a))
              \/ (\E q \in Processes : Restart(q)) \/ UNCHANGED schedulevars
  PROVE  SlotInv'
<1>1. CASE \/ MinutePasses \/ RequestStep \/ (\E a \in active : CollectionEnds(a))
           \/ UNCHANGED schedulevars
  <2>1. UNCHANGED <<trigger, tasks, thread>>
    BY <1>1 DEF MinutePasses, RequestStep, CreateSchedule, DeleteSchedule,
                ToggleSchedule, CollectionEnds, schedulevars
  <2> QED
    BY <2>1 DEF SlotInv, Shape, WorkShape, SlotOK, Holds
<1>2. ASSUME NEW q \in Processes, Restart(q)
      PROVE  SlotInv'
  <2>1. /\ thread' = [t \in Threads |-> IF Process[t] = q THEN NoThread ELSE thread[t]]
        /\ UNCHANGED <<trigger, tasks>>
    BY Zenon, <1>2 DEF Restart
  <2>2. \A t \in Threads : thread'[t] = NoThread \/ thread'[t] = thread[t]
    BY <2>1
  <2>3. DOMAIN thread' = Threads /\ thread' = [t \in Threads |-> thread'[t]]
    BY <2>1
  <2>4. WorkShape'
    BY <2>2, <2>3, NoWorkFacts DEF SlotInv, Shape, WorkShape
  <2>5. Shape'
    BY <2>1, <2>4 DEF SlotInv, Shape
  <2> QED
    BY <2>1, <2>2, <2>5, NoWorkFacts, Frame
<1> QED
  BY <1>1, <1>2

\* A thread writes the status of the slot it holds, and leaves it.
LEMMA MarkInv ==
  ASSUME SlotInv, NEW t \in Threads, NEW status, NEW step,
         thread[t].step \in Busy, step \notin Busy,
         thread[t].step = "created" => status = "created",
         thread[t].step # "created" => status \in {"skipped_low_disk", "skipped_overlap", "failed"},
         trigger' = Mark(t, status), thread' = [thread EXCEPT ![t].step = step], tasks' = tasks
  PROVE  SlotInv'
<1>0. /\ trigger' \in [Plans -> [Slots -> TriggerStatuses]]
      /\ \A p \in Plans, s \in Slots :
           trigger'[p][s] = IF p = thread[t].sid /\ s = thread[t].slot THEN status
                            ELSE trigger[p][s]
  <2>1. status \in TriggerStatuses
    BY DEF TriggerStatuses
  <2> QED
    BY <2>1, MarkCell
<1>1. /\ thread'[t].step \notin Busy /\ \A u \in Threads \ {t} : thread'[u] = thread[u]
      /\ Shape'
  <2>1. WorkShape' /\ thread'[t].step = step /\ \A u \in Threads \ {t} : thread'[u] = thread[u]
    BY Zenon, StepChanges DEF SlotInv
  <2> QED
    BY <1>0, <2>1 DEF SlotInv, Shape
<1>2. ASSUME NEW p \in Plans, NEW s \in Slots
      PROVE  SlotOK(p, s)'
  <2>1. CASE Holds(t, p, s)
    <3>1. trigger'[p][s] = status
      BY <1>0, <2>1 DEF Holds
    <3>2. tasks[p][s] = IF thread[t].step = "created" THEN 1 ELSE 0
      BY <2>1 DEF SlotInv, SlotOK
    <3>4. \A u \in Threads : Holds(u, p, s) => u = t
      BY <2>1 DEF SlotInv, SlotOK
    <3>5. ~Holds(t, p, s)'
      BY <1>1 DEF Holds
    <3>6. \A u \in Threads \ {t} : Holds(u, p, s)' => Holds(u, p, s)
      BY <1>1 DEF Holds
    <3>3. \A u \in Threads : ~Holds(u, p, s)'
      BY <3>4, <3>5, <3>6
    <3> QED
      BY <3>1, <3>2, <3>3 DEF SlotOK
  <2>2. CASE ~Holds(t, p, s)
    <3>1. trigger'[p][s] = trigger[p][s]
      BY <1>0, <2>2 DEF Holds
    <3>4. ~Holds(t, p, s)'
      BY <1>1 DEF Holds
    <3>5. \A u \in Threads \ {t} : Holds(u, p, s)' => Holds(u, p, s)
      BY <1>1 DEF Holds
    <3>2. \A u \in Threads : Holds(u, p, s)' => Holds(u, p, s) /\ thread'[u] = thread[u]
      BY <1>1, <3>4, <3>5
    <3>3. SlotOK(p, s)
      BY DEF SlotInv
    <3> QED
      BY <3>1, <3>2, <3>3, SlotKept
  <2> QED
    BY <2>1, <2>2
<1> QED
  BY <1>1, <1>2 DEF SlotInv

\* claimScheduleTrigger lets a thread through where no row was.
LEMMA ClaimInv ==
  ASSUME SlotInv, NEW t \in Threads, NEW fails \in BOOLEAN, Claim(t, fails)
  PROVE  SlotInv'
<1> DEFINE wins == trigger[thread[t].sid][thread[t].slot] = "none" /\ ~fails
<1>1. CASE ~wins
  <2>1. /\ thread' = [thread EXCEPT ![t].step = After(t)] /\ UNCHANGED <<trigger, tasks>>
        /\ After(t) \notin Busy
    BY Zenon, <1>1 DEF Claim, After, Busy
  <2>2. /\ WorkShape' /\ \A u \in Threads \ {t} : thread'[u] = thread[u]
        /\ thread'[t].step = After(t)
    BY Zenon, <2>1, StepChanges DEF SlotInv
  <2>3. Shape'
    BY <2>1, <2>2 DEF SlotInv, Shape
  <2> QED
    BY <2>1, <2>2, <2>3, Frame
<1>2. CASE wins
  <2>1. /\ thread' = [thread EXCEPT ![t].step = "check"] /\ tasks' = tasks
        /\ trigger' = Mark(t, "claimed") /\ thread[t].step = "claim"
    BY <1>2 DEF Claim
  <2>0. /\ trigger' \in [Plans -> [Slots -> TriggerStatuses]]
        /\ \A p \in Plans, s \in Slots :
             trigger'[p][s] = IF p = thread[t].sid /\ s = thread[t].slot THEN "claimed"
                              ELSE trigger[p][s]
    <3>1. "claimed" \in TriggerStatuses
      BY DEF TriggerStatuses
    <3> QED
      BY <2>1, <3>1, MarkCell
  <2>2. /\ thread'[t].step = "check" /\ thread'[t].sid = thread[t].sid
        /\ thread'[t].slot = thread[t].slot
        /\ \A u \in Threads \ {t} : thread'[u] = thread[u]
        /\ Shape'
    <3>1. /\ thread'[t].step = "check" /\ thread'[t].sid = thread[t].sid
          /\ thread'[t].slot = thread[t].slot
          /\ \A u \in Threads \ {t} : thread'[u] = thread[u]
          /\ WorkShape'
      BY Zenon, <2>1, StepChanges DEF SlotInv
    <3> QED
      BY <2>0, <2>1, <3>1 DEF SlotInv, Shape
  <2>3. ASSUME NEW p \in Plans, NEW s \in Slots
        PROVE  SlotOK(p, s)'
    <3>1. CASE thread[t].sid = p /\ thread[t].slot = s
      <4>1. trigger[p][s] = "none" /\ trigger'[p][s] = "claimed"
        BY <1>2, <2>0, <3>1
      <4>2. tasks[p][s] = 0 /\ \A u \in Threads : ~Holds(u, p, s)
        BY <4>1 DEF SlotInv, SlotOK
      <4>3. \A u \in Threads : Holds(u, p, s)' => u = t
        BY <2>2, <4>2 DEF Holds
      <4> QED
        BY <2>1, <2>2, <4>1, <4>2, <4>3 DEF SlotOK
    <3>2. CASE ~(thread[t].sid = p /\ thread[t].slot = s)
      <4>1. trigger'[p][s] = trigger[p][s]
        BY <2>0, <3>2
      <4>2. \A u \in Threads : Holds(u, p, s)' => Holds(u, p, s) /\ thread'[u] = thread[u]
        BY <2>2, <3>2 DEF Holds
      <4>3. SlotOK(p, s)
        BY DEF SlotInv
      <4> QED
        BY <2>1, <4>1, <4>2, <4>3, SlotKept
    <3> QED
      BY <3>1, <3>2
  <2> QED
    BY <2>2, <2>3 DEF SlotInv
<1> QED
  BY <1>1, <1>2

\* createTaskWithOutbox, by the thread that holds the slot.
LEMMA CreateTaskInv ==
  ASSUME SlotInv, NEW t \in Threads, CreateTask(t)
  PROVE  SlotInv'
<1>1. /\ thread' = [thread EXCEPT ![t].step = "created"] /\ trigger' = trigger
      /\ tasks' = [tasks EXCEPT ![thread[t].sid][thread[t].slot] = @ + 1]
      /\ thread[t].step = "create"
  BY DEF CreateTask
<1>0. /\ tasks' \in [Plans -> [Slots -> Nat]]
      /\ \A p \in Plans, s \in Slots :
           tasks'[p][s] = IF p = thread[t].sid /\ s = thread[t].slot THEN tasks[p][s] + 1
                          ELSE tasks[p][s]
  BY Zenon, <1>1, TaskCell
<1>2. /\ thread'[t].step = "created" /\ thread'[t].sid = thread[t].sid
      /\ thread'[t].slot = thread[t].slot
      /\ \A u \in Threads \ {t} : thread'[u] = thread[u]
      /\ Shape'
  <2>1. /\ thread'[t].step = "created" /\ thread'[t].sid = thread[t].sid
        /\ thread'[t].slot = thread[t].slot
        /\ \A u \in Threads \ {t} : thread'[u] = thread[u]
        /\ WorkShape'
    BY Zenon, <1>1, StepChanges DEF SlotInv
  <2> QED
    BY <1>0, <1>1, <2>1 DEF SlotInv, Shape
<1>3. ASSUME NEW p \in Plans, NEW s \in Slots
      PROVE  SlotOK(p, s)'
  <2>1. CASE Holds(t, p, s)
    <3>1. trigger[p][s] = "claimed" /\ tasks[p][s] = 0 /\ \A u \in Threads : Holds(u, p, s) => u = t
      BY <1>1, <2>1 DEF SlotInv, SlotOK
    <3>2. tasks'[p][s] = 1
      BY <1>0, <2>1, <3>1 DEF Holds
    <3>3. \A u \in Threads : Holds(u, p, s)' => u = t
      BY <1>2, <3>1 DEF Holds
    <3> QED
      BY <1>1, <1>2, <3>1, <3>2, <3>3 DEF SlotOK
  <2>2. CASE ~Holds(t, p, s)
    <3>1. tasks'[p][s] = tasks[p][s]
      BY <1>0, <1>1, <2>2 DEF Holds, Busy
    <3>2. \A u \in Threads : Holds(u, p, s)' => Holds(u, p, s) /\ thread'[u] = thread[u]
      <4>1. ~Holds(t, p, s)'
        BY <1>1, <1>2, <2>2 DEF Holds, Busy
      <4>2. \A u \in Threads \ {t} : Holds(u, p, s)' => Holds(u, p, s)
        BY <1>2 DEF Holds
      <4> QED
        BY <1>2, <4>1, <4>2
    <3>3. SlotOK(p, s)
      BY DEF SlotInv
    <3> QED
      BY <1>1, <3>1, <3>2, <3>3, SlotKept
  <2> QED
    BY <2>1, <2>2
<1> QED
  BY <1>2, <1>3 DEF SlotInv

\* Every step keeps the invariant of the slots.
LEMMA SlotStep == SlotInv /\ [ScheduleNext]_schedulevars => SlotInv'
<1> SUFFICES ASSUME SlotInv, [ScheduleNext]_schedulevars PROVE SlotInv'
  OBVIOUS
<1>1. ASSUME NEW t \in Threads, ThreadStep(t)
      PROVE  SlotInv'
  <2>1. CASE \/ \E status \in {"skipped_low_disk", "skipped_overlap"} : Skip(t, status)
             \/ CreateFails(t) \/ Created(t)
    <3>1. After(t) \notin Busy
      BY DEF After, Busy
    <3> QED
      BY <2>1, <3>1, MarkInv DEF Skip, CreateFails, Created, Busy
  <2> QED
    BY <1>1, <2>1, ThreadFrame, ClaimInv, CreateTaskInv DEF ThreadStep
<1> QED
  BY <1>1, OtherFrame DEF ScheduleNext

\* However many processes execute a plan and wherever they end, a slot gives at most one
\* task and its trigger row tells the truth about it (claimScheduleTrigger,
\* executeScheduledTaskAt).
THEOREM SlotGivesOneTask == ScheduleSpec => []OneTaskPerSlot
<1>1. SlotInv => OneTaskPerSlot
  BY DEF SlotInv, SlotOK, OneTaskPerSlot
<1> QED
  BY <1>1, SlotInit, SlotStep, PTL DEF ScheduleSpec

-----------------------------------------------------------------------------
(* Composite tasks *)

States == {"none", "CREATED", "RUNNING", "DONE", "FAILED", "CANCELED"}
Refreshes == [step : {"idle", "read", "stored", "move"}, status : States, seen : States]

CompositeTypeOK ==
  /\ policy \in Policies
  /\ child \in [Children -> States]
  /\ parent \in States
  /\ refresh \in [Refreshers -> Refreshes]

\* A child that is DONE has succeeded, and only children that were created succeed.
Successes == succeeded \subseteq Expanded /\ {c \in Expanded : child[c] = "DONE"} \subseteq succeeded

\* Before the creation nothing is under way, and DONE in the hands of a refresh is earned too.
Held ==
  /\ parent = "none" => Expanded = {} /\ \A r \in Refreshers : refresh[r].step = "idle"
  /\ \A r \in Refreshers : refresh[r].step # "idle" => refresh[r].status # "none"
  /\ \A r \in Refreshers : refresh[r].step # "idle" /\ refresh[r].status = "DONE" => Earned

CompositeInv == CompositeTypeOK /\ Successes /\ Held /\ DoneIsEarned

LEMMA CompositeInvInit == CompositeInit => CompositeInv
BY DEF CompositeInit, CompositeInv, CompositeTypeOK, Refreshes, States, NoRefresh, Successes,
       Expanded, Held, DoneIsEarned

\* What was earned stays earned: the children are created once, and successes are not lost.
LEMMA EarnedStays ==
  ASSUME CompositeInv, Earned, policy' = policy, Expanded' = Expanded,
         succeeded \subseteq succeeded', succeeded' \subseteq Expanded
  PROVE  Earned'
<1> USE CompositeAssumption
<1>1. CASE policy.kind = "BEST_EFFORT"
  BY <1>1 DEF Earned
<1>2. CASE policy.kind = "QUORUM"
  <2>1. IsFiniteSet(Expanded) /\ IsFiniteSet(succeeded') /\ IsFiniteSet(succeeded)
    BY FS_Subset DEF Expanded
  <2>2. /\ Cardinality(succeeded) \in Nat /\ Cardinality(succeeded') \in Nat
        /\ Cardinality(Expanded) \in Nat
    BY <2>1, FS_CardinalityType
  <2>3. Cardinality(succeeded) <= Cardinality(succeeded')
    BY <2>1, FS_Subset
  <2>4. Quorum(Cardinality(Expanded)) \in Int
    BY <2>2 DEF Quorum, CompositeInv, CompositeTypeOK
  <2>5. Quorum(Cardinality(Expanded))' = Quorum(Cardinality(Expanded))
    BY DEF Quorum
  <2>6. Cardinality(succeeded) >= Quorum(Cardinality(Expanded))
    BY <1>2 DEF Earned
  <2>7. Cardinality(succeeded') >= Quorum(Cardinality(Expanded))'
    BY <2>2, <2>3, <2>4, <2>5, <2>6
  <2> QED
    BY <1>2, <2>7 DEF Earned
<1>3. CASE policy.kind \notin {"BEST_EFFORT", "QUORUM"}
  <2>1. succeeded = Expanded
    BY <1>3 DEF Earned
  <2>2. succeeded' = Expanded' /\ policy'.kind \notin {"BEST_EFFORT", "QUORUM"}
    BY Zenon, <1>3, <2>1
  <2> QED
    BY <2>2 DEF Earned
<1> QED
  BY <1>1, <1>2, <1>3

\* aggregateCompositeStatus says DONE only when that is earned.
LEMMA AggregateEarned ==
  ASSUME CompositeInv, Aggregate(Statuses) = "DONE"
  PROVE  Earned
<1> USE CompositeAssumption
<1> DEFINE D == {c \in Expanded : child[c] = "DONE"}
           total == Cardinality(Expanded)
           done == Cardinality(D)
           ended == Cardinality({c \in Expanded : child[c] \in Terminal})
<1>1. /\ DOMAIN Statuses = Expanded
      /\ {c \in DOMAIN Statuses : Statuses[c] = "DONE"} = D
      /\ {c \in DOMAIN Statuses : Statuses[c] \in Terminal} = {c \in Expanded : child[c] \in Terminal}
  BY DEF Statuses
<1>2. /\ D \subseteq Expanded /\ D \subseteq succeeded /\ succeeded \subseteq Expanded
      /\ IsFiniteSet(Expanded) /\ IsFiniteSet(D) /\ IsFiniteSet(succeeded)
  BY FS_Subset DEF CompositeInv, Successes, Expanded
<1>3. done \in Nat /\ total \in Nat /\ Cardinality(succeeded) \in Nat /\ done <= Cardinality(succeeded)
  BY <1>2, FS_Subset, FS_CardinalityType
<1>4. CASE policy.kind = "BEST_EFFORT"
  <2>1. done > 0
    BY <1>1, <1>4 DEF Aggregate
  <2>2. D # {}
    BY <1>3, <2>1, FS_EmptySet
  <2> QED
    BY <1>2, <1>4, <2>2 DEF Earned
<1>5. CASE policy.kind = "QUORUM"
  <2>1. done >= Quorum(total)
    BY Zenon, <1>1, <1>5 DEF Aggregate
  <2>2. Quorum(total) \in Int
    BY <1>3 DEF Quorum, CompositeInv, CompositeTypeOK
  <2>3. Cardinality(succeeded) >= Quorum(total)
    BY <1>3, <2>1, <2>2
  <2> QED
    BY <1>5, <2>3 DEF Earned
<1>6. CASE policy.kind \notin {"BEST_EFFORT", "QUORUM"}
  <2>1. done = total
    BY <1>1, <1>6 DEF Aggregate
  <2>2. D = Expanded
    BY <1>2, <2>1, FS_Subset
  <2> QED
    BY <1>2, <1>6, <2>2 DEF Earned
<1> QED
  BY <1>4, <1>5, <1>6

LEMMA CreateCompositeInv ==
  ASSUME CompositeInv, NEW runnable \in SUBSET Children, CreateCompositeTask(runnable)
  PROVE  CompositeInv'
<1>1. /\ parent' = "RUNNING" /\ policy' = policy /\ succeeded' = {} /\ refresh' = refresh
      /\ child' = [c \in Children |-> IF c \in runnable THEN "CREATED" ELSE "none"]
      /\ \A r \in Refreshers : refresh[r].step = "idle"
  BY DEF CreateCompositeTask, CompositeInv, Held, Successes
<1>2. CompositeTypeOK'
  BY <1>1 DEF CompositeInv, CompositeTypeOK, States
<1>3. Successes'
  BY <1>1 DEF Successes, Expanded
<1> QED
  BY <1>1, <1>2, <1>3 DEF CompositeInv, Held, DoneIsEarned

LEMMA ChildMovesInv ==
  ASSUME CompositeInv, NEW c \in Children, NEW to \in {"RUNNING", "DONE", "FAILED", "CANCELED"},
         ChildMoves(c, to)
  PROVE  CompositeInv'
<1> USE CompositeAssumption
<1>1. /\ child' = [child EXCEPT ![c] = to] /\ c \in Expanded
      /\ succeeded' = IF to = "DONE" THEN succeeded \cup {c} ELSE succeeded
      /\ UNCHANGED <<policy, parent, refresh>>
  BY DEF ChildMoves, Expanded
<1>2. CompositeTypeOK' /\ Expanded' = Expanded
  BY <1>1 DEF CompositeInv, CompositeTypeOK, States, Expanded
<1>3. Successes' /\ succeeded \subseteq succeeded'
  BY <1>1, <1>2 DEF CompositeInv, CompositeTypeOK, Successes
<1>4. Earned => Earned'
  BY <1>1, <1>2, <1>3, EarnedStays DEF Successes
<1>5. parent # "none"
  BY <1>1 DEF CompositeInv, Held
<1> QED
  BY <1>1, <1>2, <1>3, <1>4, <1>5 DEF CompositeInv, Held, DoneIsEarned

\* A refresh changes its own record and perhaps the parent; the children stay.
LEMMA RefreshFrame ==
  ASSUME CompositeInv, NEW r \in Refreshers, NEW new \in Refreshes,
         refresh' = [refresh EXCEPT ![r] = new],
         UNCHANGED <<policy, child, succeeded>>, parent # "none", parent' \in States \ {"none"},
         new.step # "idle" => new.status # "none" /\ (new.status = "DONE" => Earned),
         parent' = "DONE" => Earned
  PROVE  CompositeInv'
<1>1. CompositeTypeOK' /\ Expanded' = Expanded
  BY DEF CompositeInv, CompositeTypeOK, Expanded
<1>2. Earned' <=> Earned
  BY <1>1 DEF Earned, Quorum
<1>3. Successes'
  BY <1>1 DEF CompositeInv, Successes
<1>4. \A q \in Refreshers : refresh'[q] = IF q = r THEN new ELSE refresh[q]
  BY DEF CompositeInv, CompositeTypeOK
<1>5. Held' /\ DoneIsEarned'
  BY <1>2, <1>4 DEF CompositeInv, Held, DoneIsEarned
<1> QED
  BY <1>1, <1>3, <1>5 DEF CompositeInv

LEMMA AggregateType == Aggregate(Statuses) \in States \ {"none"}
<1>1. CASE policy.kind = "BEST_EFFORT"
  BY <1>1 DEF Aggregate, States
<1>2. CASE policy.kind = "QUORUM"
  BY <1>2 DEF Aggregate, States
<1>3. CASE policy.kind \notin {"BEST_EFFORT", "QUORUM"}
  BY <1>3 DEF Aggregate, States
<1> QED
  BY <1>1, <1>2, <1>3

LEMMA RefreshInv ==
  ASSUME CompositeInv, NEW r \in Refreshers,
         RefreshRead(r) \/ RefreshMulti(r) \/ RefreshParent(r) \/ RefreshMove(r)
  PROVE  CompositeInv'
<1> USE CompositeAssumption
<1>1. /\ refresh[r] \in Refreshes /\ parent \in States
      /\ NoRefresh \in Refreshes /\ NoRefresh.step = "idle"
      /\ refresh[r].step # "idle" => parent # "none"
      /\ refresh[r].step # "idle" => /\ refresh[r].status # "none"
                                     /\ refresh[r].status = "DONE" => Earned
      /\ parent = "DONE" => Earned
  BY DEF CompositeInv, CompositeTypeOK, Held, DoneIsEarned, NoRefresh, Refreshes, States
<1>2. CASE RefreshRead(r)
  <2> DEFINE new == [step |-> "read", status |-> Aggregate(Statuses), seen |-> "none"]
  <2>1. new \in Refreshes /\ new.status = Aggregate(Statuses) /\ new.status # "none"
    BY AggregateType DEF Refreshes, States
  <2>2. /\ refresh' = [refresh EXCEPT ![r] = new] /\ UNCHANGED <<policy, child, succeeded, parent>>
        /\ parent # "none"
    BY <1>2 DEF RefreshRead
  <2> HIDE DEF new
  <2> QED
    BY Zenon, <1>1, <2>1, <2>2, AggregateEarned, RefreshFrame
<1>3. CASE RefreshMulti(r)
  <2> DEFINE new == [refresh[r] EXCEPT !.step = "stored"]
  <2>1. new \in Refreshes /\ new.status = refresh[r].status
    BY <1>1 DEF Refreshes
  <2>2. /\ refresh' = [refresh EXCEPT ![r] = new] /\ UNCHANGED <<policy, child, succeeded, parent>>
        /\ refresh[r].step # "idle"
    BY <1>3 DEF RefreshMulti, CompositeInv, CompositeTypeOK
  <2> HIDE DEF new
  <2> QED
    BY Zenon, <1>1, <2>1, <2>2, RefreshFrame
<1>4. CASE RefreshParent(r)
  <2> DEFINE new == IF parent = refresh[r].status THEN NoRefresh
                    ELSE [refresh[r] EXCEPT !.step = "move", !.seen = parent]
  <2>1. [refresh[r] EXCEPT !.step = "move", !.seen = parent] \in Refreshes
    BY Zenon, <1>1 DEF Refreshes
  <2>2. new \in Refreshes /\ (new.step # "idle" => new.status = refresh[r].status)
    BY <1>1, <2>1 DEF Refreshes
  <2>3. /\ refresh' = [refresh EXCEPT ![r] = new] /\ UNCHANGED <<policy, child, succeeded, parent>>
        /\ refresh[r].step # "idle"
    BY <1>4 DEF RefreshParent, CompositeInv, CompositeTypeOK
  <2> HIDE DEF new
  <2> QED
    BY Zenon, <1>1, <2>2, <2>3, RefreshFrame
<1>5. CASE RefreshMove(r)
  <2>1. /\ refresh' = [refresh EXCEPT ![r] = NoRefresh] /\ UNCHANGED <<policy, child, succeeded>>
        /\ parent' = parent \/ parent' = refresh[r].status
        /\ refresh[r].step # "idle" /\ refresh[r].status \in States
    BY <1>1, <1>5 DEF RefreshMove, Refreshes
  <2> QED
    BY Zenon, <1>1, <2>1, RefreshFrame
<1> QED
  BY <1>2, <1>3, <1>4, <1>5

LEMMA CancelInv == ASSUME CompositeInv, CancelParent PROVE CompositeInv'
<1>1. UNCHANGED <<policy, child, succeeded, refresh>> /\ parent' = "CANCELED" /\ parent # "none"
  BY DEF CancelParent
<1>2. Expanded' = Expanded
  BY <1>1 DEF Expanded
<1>3. Earned' <=> Earned
  BY <1>1, <1>2 DEF Earned, Quorum
<1> QED
  BY <1>1, <1>2, <1>3 DEF CompositeInv, CompositeTypeOK, Successes, Held, DoneIsEarned, States

\* aggregateCompositeStatus and refreshCompositeParent: whatever refreshes overlap, the
\* parent is DONE only when its children earned it; the children are finitely many and a
\* given quorum is a number.
THEOREM CompositeDoneIsEarned == CompositeSpec => []DoneIsEarned
<1>1. CompositeInv /\ [CompositeNext]_compositevars => CompositeInv'
  <2> SUFFICES ASSUME CompositeInv, [CompositeNext]_compositevars PROVE CompositeInv'
    OBVIOUS
  <2>1. CASE UNCHANGED compositevars
    <3>1. Expanded' = Expanded /\ UNCHANGED <<policy, child, succeeded, parent, refresh>>
      BY <2>1 DEF compositevars, Expanded
    <3>2. Earned' <=> Earned
      BY <3>1 DEF Earned, Quorum
    <3> QED
      BY <3>1, <3>2 DEF CompositeInv, CompositeTypeOK, Successes, Held, DoneIsEarned
  <2> QED
    BY <2>1, CreateCompositeInv, ChildMovesInv, RefreshInv, CancelInv DEF CompositeNext
<1>2. CompositeInv => DoneIsEarned
  BY DEF CompositeInv
<1> QED
  BY <1>1, <1>2, CompositeInvInit, PTL DEF CompositeSpec

-----------------------------------------------------------------------------
(* Rules and their cooldown *)

Judgement(j) == j = [step |-> j.step, rule |-> j.rule, spread |-> j.spread, off |-> j.off]

\* The steps between the look at the cooldown and the firing.
Cleared == {"overlap", "create", "record"}

\* Times are numbers, nothing has fired in the future, and a rule is being judged unless
\* the loop is idle.
DetectionShape ==
  /\ time \in Nat
  /\ fired \in [DOMAIN Rules -> Nat] /\ lastFired \in [DOMAIN Rules -> Nat]
  /\ \A r \in DOMAIN Rules : fired[r] <= time /\ lastFired[r] <= time
  /\ Judgement(judged) /\ (judged.step # "idle" => judged.rule \in DOMAIN Rules)

\* What is written down is as late as the firing it stands for.
WrittenDown == \A r \in DOMAIN Rules \ forgotten : fired[r] # 0 => lastFired[r] >= fired[r]

\* A rule that has been cleared stays so until it fires.
ClearedStays ==
  judged.step \in Cleared /\ judged.rule \notin forgotten /\ fired[judged.rule] # 0
    => time - fired[judged.rule] >= Cooldown

DetectionInv == DetectionShape /\ WrittenDown /\ ClearedStays

\* One step of CooldownIsKept.
CooldownStep ==
  \A r \in DOMAIN Rules \ forgotten :
    judged.rule = r /\ judged.step # "mark" /\ judged'.step = "mark" /\ fired[r] # 0
      => time - fired[r] >= Cooldown

LEMMA DetectionInvInit == DetectionInit => DetectionInv
BY SMT DEF DetectionInit, DetectionInv, DetectionShape, WrittenDown, ClearedStays, Cleared, Judgement,
       NoJudgement

\* The loop turns to another step, which clears no rule and fires none.
LEMMA JudgedFrame ==
  ASSUME DetectionInv, UNCHANGED <<time, fired, lastFired, forgotten>>, Judgement(judged'),
         judged'.step # "idle" => judged'.rule \in DOMAIN Rules,
         judged'.step = "mark" => judged.step = "mark",
         judged'.step \in Cleared => judged.step \in Cleared /\ judged'.rule = judged.rule
  PROVE  DetectionInv' /\ CooldownStep
BY DEF DetectionInv, DetectionShape, WrittenDown, ClearedStays, CooldownStep

\* A judgement ends.
LEMMA JudgedIdle == Judgement(NoJudgement) /\ NoJudgement.step = "idle"
BY SMT DEF NoJudgement, Judgement

\* A judgement goes on.
LEMMA JudgedNext ==
  ASSUME Judgement(judged), NEW s
  PROVE  /\ Judgement([judged EXCEPT !.step = s])
         /\ [judged EXCEPT !.step = s].step = s /\ [judged EXCEPT !.step = s].rule = judged.rule
BY SMT DEF Judgement

\* The clock goes on: what was long enough ago stays so.
LEMMA TimePassesInv == ASSUME DetectionInv, TimePasses PROVE DetectionInv' /\ CooldownStep
<1>1. time' = time + 1 /\ time \in Nat /\ UNCHANGED <<fired, lastFired, forgotten, judged>>
  BY DEF TimePasses, DetectionInv, DetectionShape
<1>2. /\ time' \in Nat
      /\ \A n \in Nat : n <= time => n <= time'
      /\ \A n \in Nat : time - n >= Cooldown => time' - n >= Cooldown
  BY SMT, <1>1, DetectionAssumption
<1>3. DetectionShape' /\ WrittenDown'
  BY <1>1, <1>2 DEF DetectionInv, DetectionShape, WrittenDown
<1>4. judged.step \in Cleared => fired[judged.rule] \in Nat
  BY DEF DetectionInv, DetectionShape, Cleared
<1>5. ClearedStays' /\ CooldownStep
  BY <1>1, <1>2, <1>4 DEF DetectionInv, ClearedStays, CooldownStep
<1> QED
  BY <1>3, <1>5 DEF DetectionInv

\* detectionInCooldown looks at the time that is written down.
LEMMA CheckCooldownInv == ASSUME DetectionInv, CheckCooldown PROVE DetectionInv' /\ CooldownStep
<1> DEFINE s == IF IsDB(judged.rule) THEN "record" ELSE "overlap"
<1>1. /\ judged.step = "cooldown" /\ Judgement(judged) /\ judged.rule \in DOMAIN Rules
      /\ UNCHANGED <<time, fired, lastFired, forgotten>>
      /\ judged' = IF InCooldown(judged.rule) THEN NoJudgement ELSE [judged EXCEPT !.step = s]
  BY DEF CheckCooldown, DetectionInv, DetectionShape
<1>2. CASE InCooldown(judged.rule)
  BY <1>1, <1>2, JudgedIdle, JudgedFrame DEF Cleared
<1>3. CASE ~InCooldown(judged.rule)
  <2>1. judged'.step \in {"record", "overlap"} /\ judged'.rule = judged.rule /\ Judgement(judged')
    BY <1>1, <1>3, JudgedNext
  <2>2. /\ fired[judged.rule] \in Nat /\ lastFired[judged.rule] \in Nat /\ time \in Nat
        /\ judged.rule \notin forgotten /\ fired[judged.rule] # 0
             => lastFired[judged.rule] >= fired[judged.rule]
    BY <1>1 DEF DetectionInv, DetectionShape, WrittenDown
  <2>3. lastFired[judged.rule] = 0 \/ ~(time - lastFired[judged.rule] < Cooldown)
    BY <1>3 DEF InCooldown
  <2>4. judged.rule \notin forgotten /\ fired[judged.rule] # 0 => time - fired[judged.rule] >= Cooldown
    BY SMT, <2>2, <2>3, DetectionAssumption
  <2> QED
    BY <1>1, <2>1, <2>4
    DEF DetectionInv, DetectionShape, WrittenDown, ClearedStays, CooldownStep
<1> QED
  BY <1>2, <1>3

\* A rule fires: it has been cleared, and its firing is not written down yet.
LEMMA FiresInv ==
  ASSUME DetectionInv, Fires(judged.rule), judged.step \in {"create", "record"},
         UNCHANGED <<time, lastFired>>
  PROVE  DetectionInv' /\ CooldownStep
<1>1. /\ judged.rule \in DOMAIN Rules /\ fired' = [fired EXCEPT ![judged.rule] = time]
      /\ forgotten' = forgotten \cup {judged.rule} /\ judged' = [judged EXCEPT !.step = "mark"]
      /\ Judgement(judged)
  BY DEF Fires, DetectionInv, DetectionShape
<1>2. judged'.step = "mark" /\ judged'.rule = judged.rule /\ Judgement(judged')
  BY <1>1, JudgedNext
<1>3. \A r \in DOMAIN Rules : fired'[r] = IF r = judged.rule THEN time ELSE fired[r]
  BY <1>1 DEF DetectionInv, DetectionShape
<1>4. time <= time
  BY SMT DEF DetectionInv, DetectionShape
<1>5. DetectionShape'
  BY <1>1, <1>2, <1>3, <1>4 DEF DetectionInv, DetectionShape
<1>6. WrittenDown' /\ ClearedStays'
  BY <1>1, <1>2, <1>3 DEF DetectionInv, WrittenDown, ClearedStays, Cleared
<1>7. CooldownStep
  BY DEF DetectionInv, ClearedStays, Cleared, CooldownStep
<1> QED
  BY <1>5, <1>6, <1>7 DEF DetectionInv

\* markDetectionFired writes the firing down, or fails to.
LEMMA MarkFiredInv ==
  ASSUME DetectionInv, NEW ok \in BOOLEAN, MarkFired(ok)
  PROVE  DetectionInv' /\ CooldownStep
<1>1. /\ judged.step = "mark" /\ judged.rule \in DOMAIN Rules /\ judged' = NoJudgement
      /\ UNCHANGED <<time, fired>>
      /\ lastFired' = IF ok THEN [lastFired EXCEPT ![judged.rule] = time] ELSE lastFired
      /\ forgotten' = IF ok THEN forgotten \ {judged.rule} ELSE forgotten
  BY DEF MarkFired, DetectionInv, DetectionShape
<1>2. CASE ~ok
  BY <1>1, <1>2, JudgedIdle, JudgedFrame DEF Cleared
<1>3. CASE ok
  <2>1. \A r \in DOMAIN Rules : lastFired'[r] = IF r = judged.rule THEN time ELSE lastFired[r]
    BY <1>1, <1>3 DEF DetectionInv, DetectionShape
  <2>2. time <= time /\ fired[judged.rule] <= time /\ time >= fired[judged.rule]
    BY SMT, <1>1 DEF DetectionInv, DetectionShape
  <2>3. DetectionShape'
    BY <1>1, <1>3, <2>1, <2>2, JudgedIdle DEF DetectionInv, DetectionShape
  <2>4. WrittenDown'
    BY <1>1, <1>3, <2>1, <2>2 DEF DetectionInv, WrittenDown
  <2>5. ClearedStays' /\ CooldownStep
    BY <1>1, JudgedIdle DEF ClearedStays, Cleared, CooldownStep
  <2> QED
    BY <2>3, <2>4, <2>5 DEF DetectionInv
<1> QED
  BY <1>2, <1>3

\* The steps of users, and the judgements, fire and mark nothing.
LEMMA OtherRuleSteps ==
  ASSUME DetectionInv, NEW r \in DOMAIN Rules,
         \/ CreateSentinelRule(r) \/ DeleteSentinelRule(r) \/ TaskStarts(r) \/ DiagnosisEnds(r)
         \/ NoData(r)
         \/ \E trend \in Trends, stored \in BOOLEAN : Judge(r, trend, stored)
         \/ \E hit \in BOOLEAN : JudgeDB(r, hit)
  PROVE  DetectionInv' /\ CooldownStep
<1>1. CASE \/ CreateSentinelRule(r) \/ DeleteSentinelRule(r) \/ TaskStarts(r) \/ DiagnosisEnds(r)
           \/ NoData(r)
  <2>1. UNCHANGED <<time, fired, lastFired, forgotten, judged>>
    BY <1>1 DEF CreateSentinelRule, DeleteSentinelRule, TaskStarts, DiagnosisEnds, NoData
  <2> QED
    BY <2>1, JudgedFrame DEF DetectionInv, DetectionShape
<1>2. ASSUME NEW trend \in Trends, NEW stored \in BOOLEAN, Judge(r, trend, stored)
      PROVE  DetectionInv' /\ CooldownStep
  <2>1. /\ UNCHANGED <<time, fired, lastFired, forgotten>>
        /\ \/ judged' = NoJudgement
           \/ \E x, y : judged' = [step |-> "deviation", rule |-> r, spread |-> x, off |-> y]
    BY <1>2 DEF Judge
  <2>2. ASSUME NEW x, NEW y, judged' = [step |-> "deviation", rule |-> r, spread |-> x, off |-> y]
        PROVE  Judgement(judged') /\ judged'.step = "deviation" /\ judged'.rule = r
    BY SMT, <2>2 DEF Judgement
  <2> QED
    BY <2>1, <2>2, JudgedIdle, JudgedFrame DEF Cleared
<1>3. ASSUME NEW hit \in BOOLEAN, JudgeDB(r, hit)
      PROVE  DetectionInv' /\ CooldownStep
  <2>1. /\ UNCHANGED <<time, fired, lastFired, forgotten>>
        /\ judged' = NoJudgement \/ judged' = [step |-> "cooldown", rule |-> r, spread |-> 0, off |-> 0]
    BY <1>3 DEF JudgeDB
  <2>2. ASSUME judged' = [step |-> "cooldown", rule |-> r, spread |-> 0, off |-> 0]
        PROVE  Judgement(judged') /\ judged'.step = "cooldown" /\ judged'.rule = r
    BY SMT, <2>2 DEF Judgement
  <2> QED
    BY <2>1, <2>2, JudgedIdle, JudgedFrame DEF Cleared
<1> QED
  BY <1>1, <1>2, <1>3

\* The gates before and after the cooldown, and a diagnosis that cannot be started.
LEMMA GateSteps ==
  ASSUME DetectionInv, NEW ok \in BOOLEAN,
         Deviation \/ CheckOverlap(ok) \/ CreateDiagnosis(ok) \/ RecordEvent
  PROVE  DetectionInv' /\ CooldownStep
<1> USE JudgedIdle, JudgedFrame DEF Cleared
<1>1. Judgement(judged) /\ (judged.step # "idle" => judged.rule \in DOMAIN Rules)
  BY DEF DetectionInv, DetectionShape
<1>2. CASE Deviation
  <2>1. /\ UNCHANGED <<time, fired, lastFired, forgotten>> /\ judged.step = "deviation"
        /\ judged' = NoJudgement \/ judged' = [judged EXCEPT !.step = "cooldown"]
    BY <1>2 DEF Deviation
  <2>2. CASE judged' = NoJudgement
    BY <2>1, <2>2
  <2>3. CASE judged' = [judged EXCEPT !.step = "cooldown"]
    <3>1. Judgement(judged') /\ judged'.step = "cooldown" /\ judged'.rule = judged.rule
      BY <1>1, <2>3, JudgedNext
    <3> QED
      BY <1>1, <2>1, <3>1
  <2> QED
    BY <2>1, <2>2, <2>3
<1>3. CASE CheckOverlap(ok)
  <2>1. /\ UNCHANGED <<time, fired, lastFired, forgotten>> /\ judged.step = "overlap"
        /\ judged' = NoJudgement \/ judged' = [judged EXCEPT !.step = "create"]
    BY <1>3 DEF CheckOverlap
  <2>2. CASE judged' = NoJudgement
    BY <2>1, <2>2
  <2>3. CASE judged' = [judged EXCEPT !.step = "create"]
    <3>1. Judgement(judged') /\ judged'.step = "create" /\ judged'.rule = judged.rule
      BY <1>1, <2>3, JudgedNext
    <3> QED
      BY <1>1, <2>1, <3>1
  <2> QED
    BY <2>1, <2>2, <2>3
<1>4. CASE CreateDiagnosis(ok)
  BY <1>4, FiresInv DEF CreateDiagnosis
<1>5. CASE RecordEvent
  BY <1>5, FiresInv DEF RecordEvent
<1> QED
  BY <1>2, <1>3, <1>4, <1>5

LEMMA DetectionStep ==
  ASSUME DetectionInv, [DetectionNext]_detectionvars
  PROVE  DetectionInv' /\ [CooldownStep]_detectionvars
<1>1. CASE UNCHANGED detectionvars
  <2>1. UNCHANGED <<time, fired, lastFired, forgotten, judged>>
    BY <1>1 DEF detectionvars
  <2> QED
    BY <1>1, <2>1, JudgedFrame DEF DetectionInv, DetectionShape
<1>2. CASE DetectionNext
  <2>1. CASE TimePasses \/ CheckCooldown
    BY <2>1, TimePassesInv, CheckCooldownInv
  <2>2. CASE \E r \in DOMAIN Rules :
               \/ CreateSentinelRule(r) \/ DeleteSentinelRule(r)
               \/ TaskStarts(r) \/ DiagnosisEnds(r) \/ NoData(r)
               \/ \E trend \in Trends, stored \in BOOLEAN : Judge(r, trend, stored)
               \/ \E hit \in BOOLEAN : JudgeDB(r, hit)
    BY <2>2, OtherRuleSteps
  <2>3. CASE evaluateSentinelRules
    <3>1. UNCHANGED <<time, fired, lastFired, forgotten, judged>>
      BY <2>3 DEF evaluateSentinelRules
    <3> QED
      BY <3>1, JudgedFrame DEF DetectionInv, DetectionShape
  <2>4. CASE Deviation \/ RecordEvent
    BY <2>4, GateSteps
  <2>5. CASE \E ok \in BOOLEAN : CheckOverlap(ok) \/ CreateDiagnosis(ok) \/ MarkFired(ok)
    BY <2>5, GateSteps, MarkFiredInv
  <2>6. CASE Crash
    BY <2>6, JudgedIdle, JudgedFrame DEF Crash, Cleared
  <2> QED
    BY <1>2, <2>1, <2>2, <2>3, <2>4, <2>5, <2>6 DEF DetectionNext
<1> QED
  BY <1>1, <1>2

\* evaluateSentinelRule looks at last_fired_at before it starts a diagnosis or records an
\* event, and markDetectionFired writes it afterwards: however long the steps between take,
\* and wherever the process stops, a rule fires twice within its cooldown only if its
\* firing was never written down.
THEOREM RulesKeepTheirCooldown == DetectionSpec => CooldownIsKept
<1>1. DetectionInv /\ [DetectionNext]_detectionvars => DetectionInv'
  BY DetectionStep
<1>2. DetectionInv /\ [DetectionNext]_detectionvars
        => [\A r \in DOMAIN Rules \ forgotten :
              judged.rule = r /\ judged.step # "mark" /\ judged'.step = "mark" /\ fired[r] # 0
                => time - fired[r] >= Cooldown]_detectionvars
  BY DetectionStep DEF CooldownStep
<1> QED
  BY <1>1, <1>2, DetectionInvInit, PTL DEF DetectionSpec, CooldownIsKept
=============================================================================
