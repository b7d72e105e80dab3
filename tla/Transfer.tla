-------------------------------- MODULE Transfer --------------------------------
(***************************************************************************)
(* The .autowright archive (backend/autowright/transfer.py): export turns    *)
(* the ids of secrets and agents into numbered references, import resolves   *)
(* each reference against the records of the machine it lands on, or lands   *)
(* it unresolved.  Ids of records are negative numbers, references and the   *)
(* ids minted at a landing positive ones, and a subscript that is none is     *)
(* Junk.  Names and descriptions stand for texts; Tokens gives the words the  *)
(* matching compares.                                                        *)
(***************************************************************************)
EXTENDS Integers, Sequences, FiniteSets, SequencesExt

CONSTANTS SecretIds, AgentIds,
          Tokens,      \* text -> its set of tokens (text 0 is blank)
          Stores,      \* the records a machine may hold
          Origins,     \* those the exporting machine starts with
          Plans,       \* the automations there are to export
          Cap,         \* STEP_TIMEOUT_MAX_S
          MaxTampers    \* bound: moves and edits of the file

VARIABLES store,       \* [secrets, agents, default] of the machine at hand
          auto,        \* the automation, as its current version holds it
          archive,     \* <<>> or the exported file
          landed,      \* <<>> or what an import created
          pristine,    \* ghost: neither the file nor the records were touched since
          handled      \* moves and edits so far

transferVars == <<store, auto, archive, landed, pristine, handled>>

Junk == 0
NoRef == -1
Ref(i) == i
NewId(kind, ref) == 2 * ref + (IF kind = "secret" THEN 0 ELSE 1)
Here(recs) == {i \in DOMAIN recs : recs[i].name # 0}

(* Ids are none of the numbers used otherwise; the app keeps the names of a   *)
(* machine's secrets, and of its agents, apart (api.py:506, 3001).            *)
NamedApart(recs) == \A i, j \in Here(recs) : recs[i].name = recs[j].name => i = j
ASSUME TransferAssumption ==
  /\ IsFiniteSet(SecretIds) /\ IsFiniteSet(AgentIds) /\ MaxTampers \in Nat
  /\ \A i \in SecretIds \cup AgentIds : i \in Int /\ i < NoRef
  /\ \A st \in Stores :
       /\ st.secrets \in [SecretIds -> [name : Nat, desc : Nat]] /\ NamedApart(st.secrets)
       /\ st.agents \in [AgentIds -> [name : Nat, desc : Nat, config : STRING]]
       /\ NamedApart(st.agents) /\ st.default \in AgentIds \cup {NoRef}
  /\ Origins \subseteq Stores
  /\ \A a \in Plans : /\ a.agent \in AgentIds /\ a.tokens \subseteq SecretIds
                     /\ a.steps \in Seq([name : Nat, agent : BOOLEAN,
                                         agents : SUBSET AgentIds, secrets : SUBSET SecretIds,
                                         codeS : SUBSET (SecretIds \cup {Junk}),
                                         codeA : SUBSET (AgentIds \cup {Junk}),
                                         script : STRING, timeout : Int, noTimeout : BOOLEAN])

(***************************************************************************)
(* Export.                                                                  *)
(***************************************************************************)
IdsIn(keys) == keys \ {Junk}
StepSecrets(s) == s.secrets \cup IdsIn(s.codeS)
StepAgents(s) == s.agents \cup IdsIn(s.codeA)

(* The members of a finite set, the smallest of a strict order first.        *)
Ordered(S, less) ==
  [n \in 1..Cardinality(S) |->
     CHOOSE x \in S : Cardinality({y \in S : <<y, x>> \in less}) = n - 1]

(* Secrets are listed by name; agents the authoring one first, then step by   *)
(* step, the new ones of a step by id.                                        *)
SecretsOf(a) == a.tokens \cup UNION {StepSecrets(a.steps[i]) : i \in DOMAIN a.steps}
ReferencedSecrets(a) ==
  Ordered(SecretsOf(a), {p \in SecretsOf(a) \X SecretsOf(a) :
                          store.secrets[p[1]].name < store.secrets[p[2]].name})

Authoring(a) == {a.agent} \cap Here(store.agents)
AgentsAt(a, n) == IF n = 0 THEN Authoring(a) ELSE StepAgents(a.steps[n])
ReferencedAgents(a) ==
  LET all == UNION {AgentsAt(a, n) : n \in 0..Len(a.steps)}
      sooner(x, y) == \E n \in 0..Len(a.steps) : /\ x \in AgentsAt(a, n)
                                                /\ \A m \in 0..n : y \notin AgentsAt(a, m)
  IN Ordered(all, {p \in all \X all : \/ sooner(p[1], p[2])
                                    \/ (p[1] < p[2] /\ ~sooner(p[2], p[1]))})

Dangles(a) ==
  \/ ~(a.tokens \subseteq Here(store.secrets))
  \/ \E i \in DOMAIN a.steps : \/ ~(StepSecrets(a.steps[i]) \subseteq Here(store.secrets))
                               \/ ~(StepAgents(a.steps[i]) \subseteq Here(store.agents))

UnknownSubscript(a) == \E i \in DOMAIN a.steps : Junk \in a.steps[i].codeS \cup a.steps[i].codeA

(* A step whose limits cannot be written: not a whole number, or both.       *)
LimitsTravel(s) == s.timeout >= 0 /\ ~(s.timeout > 0 /\ s.noTimeout)

NamesTravel(steps) == /\ \A i \in DOMAIN steps : steps[i].name # 0
                      /\ \A i, j \in DOMAIN steps : steps[i].name = steps[j].name => i = j

Position(seq, x) == Ref(CHOOSE i \in DOMAIN seq : seq[i] = x)

(* The step as the file carries it: ids become references, and the agents    *)
(* of a step that is no agent step stay behind.                              *)
Carried(s, secs, ags) ==
  [s EXCEPT !.agents = IF s.agent THEN {Position(ags, i) : i \in @} ELSE {},
            !.secrets = {Position(secs, i) : i \in @},
            !.codeS = {Position(secs, i) : i \in @},
            !.codeA = {Position(ags, i) : i \in @}]

Packed(a, withValues) ==
  LET secs == ReferencedSecrets(a)
      ags == ReferencedAgents(a)
  IN [steps |-> [i \in DOMAIN a.steps |-> Carried(a.steps[i], secs, ags)],
      agent |-> IF Authoring(a) = {} THEN NoRef ELSE Position(ags, a.agent),
      tokens |-> {Position(secs, i) : i \in a.tokens},
      secrets |-> [i \in DOMAIN secs |-> [ref |-> Ref(i), name |-> store.secrets[secs[i]].name,
                                          desc |-> store.secrets[secs[i]].desc]],
      agents |-> [i \in DOMAIN ags |-> [ref |-> Ref(i), name |-> store.agents[ags[i]].name,
                                        desc |-> store.agents[ags[i]].desc,
                                        config |-> store.agents[ags[i]].config]],
      params |-> a.params,
      values |-> IF withValues THEN {v \in a.values : \E p \in a.params : p[1] = v[1]} ELSE {}]

(***************************************************************************)
(* Validation of a file before anything is written.                         *)
(***************************************************************************)
Refs(entries) == {entries[i].ref : i \in DOMAIN entries}
Distinct(entries) == Cardinality(Refs(entries)) = Len(entries)

ManifestOk(arch) ==
  /\ arch.agent # NoRef => arch.agent \in Refs(arch.agents)
  /\ \A p, q \in arch.params : p[1] = q[1] => p = q

StepOk(s) ==
  /\ s.name # 0
  /\ s.timeout = 0 \/ (s.timeout > 0 /\ s.timeout <= Cap /\ ~s.noTimeout)
  /\ \A r \in s.secrets \cup s.agents : r > 0

RecordsOk(arch) ==
  /\ Distinct(arch.secrets) /\ Distinct(arch.agents)
  /\ \A i \in DOMAIN arch.secrets : arch.secrets[i].name # 0
  /\ \A i \in DOMAIN arch.agents : arch.agents[i].name # 0

(* Every reference is listed, and an agents[...] subscript is one of its own *)
(* step's declared agents.                                                   *)
AgentsOf(s) == IF s.agent THEN s.agents ELSE {}
RefsResolve(arch) ==
  /\ arch.tokens \subseteq Refs(arch.secrets)
  /\ \A i \in DOMAIN arch.steps :
       LET s == arch.steps[i]
       IN /\ AgentsOf(s) \cup s.codeA \subseteq Refs(arch.agents)
          /\ s.secrets \cup s.codeS \subseteq Refs(arch.secrets)
          /\ s.codeA \subseteq AgentsOf(s)

Valid(arch) ==
  /\ ManifestOk(arch) /\ RecordsOk(arch) /\ RefsResolve(arch)
  /\ NamesTravel(arch.steps) /\ \A i \in DOMAIN arch.steps : StepOk(arch.steps[i])

(* A listed record nothing refers to is dropped before any matching.         *)
UsedSecrets(arch) == arch.tokens \cup UNION {arch.steps[i].secrets \cup arch.steps[i].codeS
                                             : i \in DOMAIN arch.steps}
UsedAgents(arch) == ({arch.agent} \ {NoRef})
                      \cup UNION {AgentsOf(arch.steps[i]) \cup arch.steps[i].codeA
                                  : i \in DOMAIN arch.steps}
KeepsAll(arch) == arch
OnlyUsed(entries, used) ==
  LET at == {i \in DOMAIN entries : entries[i].ref \in used}
      places == Ordered(at, {p \in at \X at : p[1] < p[2]})
  IN [n \in DOMAIN places |-> entries[places[n]]]
Trimmed(arch) ==
  [arch EXCEPT !.secrets = OnlyUsed(@, UsedSecrets(arch)),
               !.agents = OnlyUsed(@, UsedAgents(arch)),
               !.steps = [i \in DOMAIN @ |-> [@[i] EXCEPT !.agents = AgentsOf(arch.steps[i])]]]

(***************************************************************************)
(* Matching.  Similarities are sixtieths, scores six-hundredths.            *)
(***************************************************************************)
Similarity(s, t) == IF s = {} \/ t = {} THEN 0
                    ELSE (60 * Cardinality(s \cap t)) \div Cardinality(s \cup t)
NameLikeness(e, r) == Similarity(Tokens[e.name], Tokens[r.name])
Score(e, r) ==
  IF Tokens[e.desc] = {} \/ Tokens[r.desc] = {} THEN 10 * NameLikeness(e, r)
  ELSE 7 * NameLikeness(e, r) + 3 * Similarity(Tokens[e.desc], Tokens[r.desc])

(* The one record close enough in name and clear of every other.             *)
Best(e, recs, free) ==
  {i \in free : /\ Score(e, recs[i]) >= 360 /\ NameLikeness(e, recs[i]) > 0
                /\ \A j \in free \ {i} : Score(e, recs[i]) - Score(e, recs[j]) >= 90}

Named(e, recs, free) == {i \in free : recs[i].name = e.name}
ConfigAlone(e, recs, free) == {i \in free : recs[i].config = e.config}
NamedAlike(e, recs, free) == {i \in free : recs[i].name = e.name /\ recs[i].config = e.config}
Configured(e, recs, free) ==
  LET same == {i \in free : recs[i].config = e.config}
      rank(i) == <<-Score(e, recs[i]), IF i = store.default THEN 0 ELSE 1, recs[i].name, i>>
      before(s, t) == \E n \in 1..4 : s[n] < t[n] /\ \A m \in 1..(n - 1) : s[m] = t[m]
  IN {i \in same : \A j \in same \ {i} : before(rank(i), rank(j))}

(* One pass of a ladder: references in listing order, each taking what the   *)
(* rung offers among the records still free, and claiming it.                *)
Offer(rung, e, recs, free) ==
  CASE rung = "name" -> Named(e, recs, free)
    [] rung = "alike" -> NamedAlike(e, recs, free)
    [] rung = "config" -> Configured(e, recs, free)
    [] rung = "likeness" -> Best(e, recs, free)

Claims(free, i) == free \ {i}
Claimed(e, offer, s) ==
  IF s.res[e.ref] # NoRef \/ offer = {} THEN s
  ELSE LET i == CHOOSE i \in offer : TRUE
       IN [res |-> [s.res EXCEPT ![e.ref] = i], free |-> Claims(s.free, i)]
Pass(rung, entries, recs, start) ==
  LET state[n \in 0..Len(entries)] ==
        IF n = 0 THEN start
        ELSE Claimed(entries[n], Offer(rung, entries[n], recs, state[n - 1].free), state[n - 1])
  IN state[Len(entries)]

Unmatched(entries, recs) == [res |-> [r \in Refs(entries) |-> NoRef], free |-> Here(recs)]
MatchSecrets(arch) ==
  LET recs == store.secrets
      named == Pass("name", arch.secrets, recs, Unmatched(arch.secrets, recs))
  IN Pass("likeness", arch.secrets, recs, named).res
MatchAgents(arch) ==
  LET recs == store.agents
      named == Pass("alike", arch.agents, recs, Unmatched(arch.agents, recs))
      configured == Pass("config", arch.agents, recs, named)
  IN Pass("likeness", arch.agents, recs, configured).res

(* The authoring agent, or the default agent in its place: that claims none. *)
MatchArchive(arch) ==
  LET ags == MatchAgents(arch)
      author == IF arch.agent = NoRef THEN NoRef ELSE ags[arch.agent]
  IN [secrets |-> MatchSecrets(arch), agents |-> ags,
      author |-> IF author # NoRef THEN author ELSE store.default]

(***************************************************************************)
(* Landing.                                                                 *)
(***************************************************************************)
Resolved(kind, res, r) == IF res[r] = NoRef THEN NewId(kind, r) ELSE res[r]
Substituted(s, m) ==
  LET sec(r) == Resolved("secret", m.secrets, r)
      ag(r) == Resolved("agent", m.agents, r)
  IN [s EXCEPT !.secrets = {sec(r) : r \in @}, !.codeS = {sec(r) : r \in @},
               !.agents = {ag(r) : r \in @}, !.codeA = {ag(r) : r \in @},
               !.script = "sealed"]

Granted(res) == {res[r] : r \in DOMAIN res} \ {NoRef}
NothingUnresolved(kind, res) == {}
Unresolved(kind, res) == {NewId(kind, r) : r \in {r \in DOMAIN res : res[r] = NoRef}}

Landing(arch, valuesWritten) ==
  LET m == MatchArchive(arch)
  IN [steps |-> [i \in DOMAIN arch.steps |-> Substituted(arch.steps[i], m)],
      agent |-> m.author, match |-> m,
      tokens |-> {Resolved("secret", m.secrets, r) : r \in arch.tokens},
      allowed |-> Granted(m.secrets),
      enabled |-> Granted(m.agents) \cup ({m.author} \ {NoRef}),
      unresolved |-> Unresolved("secret", m.secrets) \cup Unresolved("agent", m.agents),
      params |-> arch.params,
      values |-> IF valuesWritten THEN arch.values \cap arch.params ELSE {}]

(***************************************************************************)
(* What an edit by hand makes of a file.                                    *)
(***************************************************************************)
Edits(seq, f(_)) == {[seq EXCEPT ![i] = f(@)] : i \in DOMAIN seq}
Forged(arch) ==
  {[arch EXCEPT !.secrets = x] :
     x \in {RemoveAt(arch.secrets, i) : i \in DOMAIN arch.secrets}
           \cup {Append(arch.secrets, [ref |-> r, name |-> 1, desc |-> 0]) : r \in 1..3}
           \cup Edits(arch.secrets, LAMBDA e : [e EXCEPT !.name = 3])}
  \cup {[arch EXCEPT !.agents = x] :
          x \in {Append(arch.agents, [ref |-> r, name |-> 1, desc |-> 0, config |-> "c"]) : r \in 1..3}
                \cup Edits(arch.agents, LAMBDA e : [e EXCEPT !.config = "d"])}
  \cup {[arch EXCEPT !.steps = x] :
          x \in Edits(arch.steps, LAMBDA s : [s EXCEPT !.codeS = @ \cup {2}])
                \cup Edits(arch.steps, LAMBDA s : [s EXCEPT !.codeA = @ \cup {2}])
                \cup Edits(arch.steps, LAMBDA s : [s EXCEPT !.agent = ~@])
                \cup Edits(arch.steps, LAMBDA s : [s EXCEPT !.secrets = @ \cup SecretIds])}
  \cup {[arch EXCEPT !.agent = NoRef], [arch EXCEPT !.agent = 3]}

(***************************************************************************)
(* The operations, and what users do to records and files between them.     *)
(***************************************************************************)
TransferInit == /\ store \in Origins /\ auto \in Plans
                /\ archive = <<>> /\ landed = <<>>
                /\ pristine = TRUE /\ handled = 0

(* A script changed on disk or missing, a dangling id, an unknown subscript, *)
(* a manifest that cannot travel, or a file its own importer would refuse.   *)
Exportable(a) ==
  /\ ~Dangles(a) /\ ~UnknownSubscript(a) /\ NamesTravel(a.steps)
  /\ \A i \in DOMAIN a.steps : LimitsTravel(a.steps[i]) /\ a.steps[i].script = "sealed"
  /\ Valid(Packed(a, TRUE))

Export(withValues) ==
  /\ archive = <<>> /\ Exportable(auto)
  /\ archive' = <<Packed(auto, withValues)>> /\ pristine' = TRUE
  /\ UNCHANGED <<store, auto, landed, handled>>

(* Records are renamed, deleted, added - or the file goes to another machine. *)
Moves(st) ==
  /\ handled < MaxTampers /\ st # store /\ landed = <<>>
  /\ store' = st /\ handled' = handled + 1 /\ pristine' = FALSE
  /\ UNCHANGED <<auto, archive, landed>>

Tamper ==
  /\ archive # <<>> /\ handled < MaxTampers /\ landed = <<>>
  /\ \E arch \in Forged(archive[1]) : archive' = <<arch>>
  /\ handled' = handled + 1 /\ pristine' = FALSE
  /\ UNCHANGED <<store, auto, landed>>

Import(valuesWritten) ==
  /\ archive # <<>> /\ landed = <<>> /\ Valid(archive[1])
  /\ landed' = <<Landing(Trimmed(archive[1]), valuesWritten)>>
  /\ UNCHANGED <<store, auto, archive, pristine, handled>>

TransferNext == \/ Tamper \/ \E st \in Stores : Moves(st)
                \/ \E b \in BOOLEAN : Export(b) \/ Import(b)

TransferSpec == TransferInit /\ [][TransferNext]_transferVars

TransferTypeOK ==
  /\ store \in Stores /\ auto \in Plans /\ handled \in 0..MaxTampers
  /\ Len(archive) <= 1 /\ Len(landed) <= 1

(* What this machine exports it imports back as it was: every reference      *)
(* finds the record it was made from, and the limits are the ones the steps   *)
(* ran under (transfer.py:241-422, 1132-1210, 1328-1412).                     *)
Recovered(s) == [s EXCEPT !.agents = AgentsOf(s)]
RoundTrip ==
  (pristine /\ landed # <<>>) =>
    /\ landed[1].steps = [i \in DOMAIN auto.steps |-> Recovered(auto.steps[i])]
    /\ landed[1].tokens = auto.tokens /\ landed[1].unresolved = {}
    /\ auto.agent \in Here(store.agents) => landed[1].agent = auto.agent

(* Whatever file lands on whatever records, every id in its steps and its     *)
(* triggers is granted or is listed as unresolved, nothing unresolved is a     *)
(* record of the machine, and a subscript is one its own step declares         *)
(* (transfer.py:908-960, 1334-1434).                                           *)
LandedSecrets == landed[1].tokens \cup UNION {StepSecrets(landed[1].steps[i])
                                               : i \in DOMAIN landed[1].steps}
LandedAgents == UNION {StepAgents(landed[1].steps[i]) : i \in DOMAIN landed[1].steps}
EveryReferenceIsAccounted ==
  landed # <<>> =>
    /\ LandedSecrets \subseteq landed[1].allowed \cup landed[1].unresolved
    /\ LandedAgents \subseteq landed[1].enabled \cup landed[1].unresolved
    /\ landed[1].unresolved \cap (SecretIds \cup AgentIds) = {}
    /\ \A i \in DOMAIN landed[1].steps : LET s == landed[1].steps[i]
                                          IN Junk \notin s.codeS /\ s.codeA \subseteq AgentsOf(s)

(* An import grants what the automation refers to and nothing else, and no    *)
(* record stands for two references (transfer.py:962-974, 1132-1199).          *)
GrantsAreReferred ==
  landed # <<>> =>
    /\ landed[1].allowed \subseteq LandedSecrets
    /\ landed[1].enabled \subseteq LandedAgents \cup {landed[1].agent}
    /\ \A res \in {landed[1].match.secrets, landed[1].match.agents} :
         \A q, r \in DOMAIN res : (res[q] = res[r] /\ res[q] # NoRef) => q = r
================================================================================
