---------------------------- MODULE SchemaRegistry ----------------------------
(***************************************************************************)
(* The vendor schemas of one owner (schemas/store.ts and handlers/schemas  *)
(* of the data PDS): register_schema publishes a document under an         *)
(* identifier once and for all, and insert_record and update_record        *)
(* validate against it what they find of it.                               *)
(*                                                                         *)
(* A Lambda instance serves one request at a time and keeps a cache of     *)
(* lookups, the failed ones included, over its requests.  Instances run    *)
(* concurrently; each call on DynamoDB is one action.                      *)
(***************************************************************************)
EXTENDS Integers, FiniteSets

CONSTANTS
    Instances,     \* the Lambda instances
    Ids,           \* schema identifiers of the vendor namespace
    Docs,          \* schema documents; a document has one hash
    Proposals,     \* the registrations that owners may send
    MaxSchemas,    \* MAX_SCHEMAS_PER_OWNER: 50 in the code
    None,          \* nothing is there; in a cache: a lookup that found nothing
    Uncached       \* the cache has no entry

ASSUME MaxSchemasAssumption == MaxSchemas \in Nat

ASSUME NoneAssumption == None \notin Docs /\ Uncached \notin Docs \cup {None}

Request == [id: Ids, doc: Docs]

ASSUME ProposalsAssumption == Proposals \subseteq Request

VARIABLES
    table,       \* the document registered under each identifier
    lagging,     \* the rows that an eventually consistent read may still miss
    cache,       \* what each instance remembers of each identifier
    at,          \* the next call of each instance
    req,         \* the registration that each instance serves
    answer,      \* history: the answer of each instance to its last registration
    calm         \* history: every read was current

registryVars == <<table, lagging, cache, at, req, answer, calm>>
-----------------------------------------------------------------------------
Results == {"registered", "immutable"}

RegistrySteps == {"idle", "count", "check", "put", "reread"}

RegistryInit ==
    /\ table = [s \in Ids |-> None]
    /\ lagging = {}
    /\ cache = [i \in Instances |-> [s \in Ids |-> Uncached]]
    /\ at = [i \in Instances |-> "idle"]
    /\ req = [i \in Instances |-> None]
    /\ answer = [i \in Instances |-> None]
    /\ calm = TRUE

Registered == {s \in Ids : table[s] # None}

\* GetCommand without ConsistentRead.
ReadableRow(s) == {table[s]} \cup (IF s \in lagging THEN {None} ELSE {})

Goto(i, step) == at' = [at EXCEPT ![i] = step]

\* The request is over; only the cache is left of it in the instance.
Finish(i) == Goto(i, "idle") /\ req' = [req EXCEPT ![i] = None]

\* register_schema answers.
AnswerRegistration(i, result) ==
    /\ Finish(i)
    /\ answer' = [answer EXCEPT ![i] = [req |-> req[i], result |-> result]]

\* getOwnerSchema: the row from the cache, or from the table into the cache.
GetOwnerSchema(i, s, found) ==
    IF cache[i][s] # Uncached
    THEN found = cache[i][s] /\ UNCHANGED <<cache, calm>>
    ELSE /\ found \in ReadableRow(s)
         /\ cache' = [cache EXCEPT ![i][s] = found]
         /\ calm' = (calm /\ found = table[s])
-----------------------------------------------------------------------------
\* insert_record and update_record look the schema up: the metadata is validated
\* against the document, and taken at face value when there is none.
Validate(i, s) ==
    /\ at[i] = "idle"
    /\ \E found \in Docs \cup {None} : GetOwnerSchema(i, s, found)
    /\ UNCHANGED <<table, lagging, at, req, answer>>

\* An owner publishes a document that passed the checks on its form; first of
\* all, is the identifier new?
Register(i, r) ==
    /\ at[i] = "idle"
    /\ \E found \in Docs \cup {None} :
          /\ GetOwnerSchema(i, r.id, found)
          /\ Goto(i, IF found = None THEN "count" ELSE "check")
    /\ req' = [req EXCEPT ![i] = r]
    /\ answer' = [answer EXCEPT ![i] = None]
    /\ UNCHANGED <<table, lagging>>

\* Mutant: one schema too many.
HasRoomInclusive(seen) == Cardinality(seen) <= MaxSchemas

HasRoom(seen) == Cardinality(seen) < MaxSchemas

\* countOwnerSchemas and the quota, for an identifier that was not found.
Count(i) ==
    /\ at[i] = "count"
    /\ \E missed \in SUBSET lagging :
          /\ calm' = (calm /\ missed = {})
          /\ \/ HasRoom(Registered \ missed) /\ Goto(i, "check") /\ UNCHANGED req
             \/ ~HasRoom(Registered \ missed) /\ Finish(i)
    /\ UNCHANGED <<table, lagging, cache, answer>>

\* putOwnerSchema, the fast path: the row is read past the cache.
Check(i) ==
    /\ at[i] = "check"
    /\ \E found \in ReadableRow(req[i].id) :
          /\ calm' = (calm /\ found = table[req[i].id])
          /\ \/ found = None /\ Goto(i, "put") /\ UNCHANGED <<req, answer>>
             \/ found = req[i].doc /\ AnswerRegistration(i, "registered")
             \/ found \notin {None, req[i].doc} /\ AnswerRegistration(i, "immutable")
    /\ UNCHANGED <<table, lagging, cache>>

\* Mutant: the cache takes what the handler was called with.
WarmedWithRequest(i) == [cache EXCEPT ![i][req[i].id] = req[i]]

\* rememberVendor, with the schema that was published.
Warmed(i) == [cache EXCEPT ![i][req[i].id] = req[i].doc]

\* Mutant: the cache is warmed before the put.
PutWarmsFirst(i) ==
    LET s == req[i].id IN
    /\ at[i] = "put"
    /\ cache' = Warmed(i)
    /\ \/ /\ table[s] = None
          /\ table' = [table EXCEPT ![s] = req[i].doc]
          /\ lagging' = lagging \cup {s}
          /\ AnswerRegistration(i, "registered")
       \/ /\ table[s] # None
          /\ Goto(i, "reread")
          /\ UNCHANGED <<table, lagging, req, answer>>
    /\ UNCHANGED calm

\* PutCommand with attribute_not_exists, then the cache.
Put(i) ==
    LET s == req[i].id IN
    /\ at[i] = "put"
    /\ \/ /\ table[s] = None
          /\ table' = [table EXCEPT ![s] = req[i].doc]
          /\ lagging' = lagging \cup {s}
          /\ cache' = Warmed(i)
          /\ AnswerRegistration(i, "registered")
       \/ /\ table[s] # None
          /\ Goto(i, "reread")
          /\ UNCHANGED <<table, lagging, cache, req, answer>>
    /\ UNCHANGED calm

\* Mutant: whoever loses the race has registered nothing.
RereadRefuses(i) ==
    /\ at[i] = "reread"
    /\ AnswerRegistration(i, "immutable")
    /\ UNCHANGED <<table, lagging, cache, calm>>

\* The race is lost: the same document is success, anything else is not.
Reread(i) ==
    /\ at[i] = "reread"
    /\ \E found \in ReadableRow(req[i].id) :
          /\ calm' = (calm /\ found = table[req[i].id])
          /\ \/ /\ found = req[i].doc
                /\ cache' = Warmed(i)
                /\ AnswerRegistration(i, "registered")
             \/ /\ found # req[i].doc
                /\ AnswerRegistration(i, "immutable")
                /\ UNCHANGED cache
    /\ UNCHANGED <<table, lagging>>

\* A cache entry is 60 seconds old, or the oldest of 256.
Forget(i, s) ==
    /\ at[i] = "idle"
    /\ cache[i][s] # Uncached
    /\ cache' = [cache EXCEPT ![i][s] = Uncached]
    /\ UNCHANGED <<table, lagging, at, req, answer, calm>>

\* A call throws, or the invocation dies and the instance with it.
InstanceCrash(i) ==
    /\ at[i] # "idle"
    /\ Finish(i)
    /\ cache' \in {cache, [cache EXCEPT ![i] = [s \in Ids |-> Uncached]]}
    /\ UNCHANGED <<table, lagging, answer, calm>>

\* The replicas catch up with a row.
RowReplicates(s) ==
    /\ s \in lagging
    /\ lagging' = lagging \ {s}
    /\ UNCHANGED <<table, cache, at, req, answer, calm>>

RegistryNext ==
    \/ \E i \in Instances : \/ \E s \in Ids : Validate(i, s) \/ Forget(i, s)
                            \/ \E r \in Proposals : Register(i, r)
                            \/ Count(i) \/ Check(i) \/ Put(i)
                            \/ Reread(i) \/ InstanceCrash(i)
    \/ \E s \in Ids : RowReplicates(s)

RegistrySpec == RegistryInit /\ [][RegistryNext]_registryVars
-----------------------------------------------------------------------------
(***************************************************************************)
(* Properties                                                              *)
(***************************************************************************)

\* Every variable keeps its type.
RegistryTypeOK ==
    /\ table \in [Ids -> Docs \cup {None}]
    /\ lagging \subseteq Registered
    /\ cache \in [Instances -> [Ids -> Docs \cup {None, Uncached}]]
    /\ at \in [Instances -> RegistrySteps]
    /\ req \in [Instances -> Request \cup {None}]
    /\ \A i \in Instances : at[i] # "idle" => req[i] \in Request
    /\ answer \in [Instances -> [req: Request, result: Results] \cup {None}]
    /\ calm \in BOOLEAN

\* Caching is safe because "registered schemas are immutable": the document that
\* an instance validates metadata against is the one that is registered, however
\* old its cache entry is and whoever won the race for the identifier.
CacheIsRegistered ==
    \A i \in Instances, s \in Ids : cache[i][s] \in {None, Uncached, table[s]}

\* Success means that this document is registered, for good; where every read was
\* current, a refusal means that another one is.
RegistryTellsTheTruth ==
    \A i \in Instances : answer[i] # None => LET a == answer[i] IN
        /\ a.result = "registered" => table[a.req.id] = a.req.doc
        /\ calm /\ a.result = "immutable" => table[a.req.id] \notin {None, a.req.doc}

\* Counting and putting are not atomic, but the quota is overrun by no more than
\* one schema for each other instance, where every read was current.
QuotaOverrunIsBounded ==
    calm => Cardinality(Registered) <= MaxSchemas + Cardinality(Instances) - 1
=============================================================================
