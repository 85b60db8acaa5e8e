----------------------------- MODULE RequestGate ----------------------------
(***************************************************************************)
(* What stands between a request and the storage: the configuration that   *)
(* load_security_config reads (auth.rs, schemas.rs), the authentication    *)
(* middleware, and the gates of the two ingestion handlers (logs.rs,       *)
(* crashes.rs) - protocol version, tenant schema, source name, token scope *)
(* and rate limit, each handler in its own order - with the request        *)
(* counters of metrics.rs.  The buckets are those of RateLimiter, whose    *)
(* Check is one conjunct of a handler's step.                              *)
(*                                                                         *)
(* A name is a sequence of characters, because scopes are prefixes and     *)
(* paths are joined with "/".  A payload is the class of what a schema can *)
(* tell apart.  The queues behind a log batch are in LogIngest, the parts  *)
(* behind a crash upload in CrashUpload and CrashStore; here they succeed  *)
(* or fail.                                                                *)
(***************************************************************************)
EXTENDS RateLimiter, Sequences, FiniteSets, Functions

CONSTANTS
    None,
    Char,           \* what names are made of
    Sources,        \* sources that clients claim to be
    ConfigFiles,    \* contents of the tokens file
    Calls,          \* requests that clients make
    Handlers,       \* requests served at the same time
    MaxCalls        \* bound on the number of requests

Text == Seq(Char)
TokenContext == [id: STRING, secret: STRING, hashed: BOOLEAN, project: Text, prefix: Text]
SchemaEntry == [project: Text, kind: STRING, accepts: SUBSET STRING, compiles: BOOLEAN]
Entry == [source: Sources \cup {None}, payload: STRING]
Call == [path: Endpoints, secret: STRING, version: BOOLEAN, wellFormed: BOOLEAN,
         entries: Seq(Entry)]

Canonical(s) == s.project \o <<"/">> \o s.install

\* A crash upload has one entry, its metadata.  The limiter's clients are the
\* pairs of a token id and a source.
ASSUME GateAssumption ==
    /\ "/" \in Char
    /\ Sources \subseteq [project: Text, install: Text]
    /\ None \notin Sources /\ None \notin TokenContext
    /\ \A c \in Calls : c \in Call /\ (c.path = "crashes" => c.entries # <<>>)
    /\ \A f \in ConfigFiles :
        /\ f.tokens \in Seq(TokenContext) /\ f.schemas \in Seq(SchemaEntry)
        /\ \A token \in Range(f.tokens), s \in Sources : <<token.id, Canonical(s)>> \in Clients
    /\ IsFiniteSet(Handlers)
    /\ MaxCalls \in Nat

VARIABLES
    server,               \* "down", "refused" or "up"
    file,                 \* the tokens file the server was started with
    registry,             \* SchemaRegistry.schemas
    req,                  \* the requests being served
    calls,                \* how many requests were made
    requestsTotal,        \* requests_total of metrics.rs, by endpoint
    validationFailures,   \* validation_failures_total, by endpoint
    owed,                 \* history: requests whose client waited for the answer
    stored                \* history: what was handed to the storage

counters == <<requestsTotal, validationFailures, owed>>
gateVars == <<vars, server, file, registry, req, calls, counters, stored>>

NoFile == [parses |-> FALSE, tokens |-> <<>>, schemas |-> <<>>, resources |-> <<>>]
Idle == [pc |-> "idle", call |-> None, token |-> None, left |-> <<>>]

GateInit ==
    /\ Init
    /\ server = "down"
    /\ file = NoFile
    /\ registry = <<>>
    /\ req = [h \in Handlers |-> Idle]
    /\ calls = 0
    /\ requestsTotal = [p \in Endpoints |-> 0]
    /\ validationFailures = [p \in Endpoints |-> 0]
    /\ owed = [p \in Endpoints |-> 0]
    /\ stored = {}

-----------------------------------------------------------------------------
(* storage.rs and auth.rs: names and scopes                                *)

\* Defect: a name may hold a path separator.
ValidateComponent_Separators(v) == v \notin {<<>>, <<".">>, <<".", ".">>}

ValidateComponent(v) ==
    /\ v \notin {<<>>, <<".">>, <<".", ".">>}
    /\ "/" \notin Range(v) /\ "\\" \notin Range(v)

\* SourceKey::new; a log entry without its attributes has no source at all.
IsSourceKey(s) == s # None /\ ValidateComponent(s.project) /\ ValidateComponent(s.install)

\* str::starts_with.
StartsWith(text, prefix) ==
    Len(prefix) <= Len(text) /\ \A i \in 1 .. Len(prefix) : text[i] = prefix[i]

Permits(token, s) == s.project = token.project /\ StartsWith(Canonical(s), token.prefix)

First(indices) == CHOOSE i \in indices : \A j \in indices : i <= j

\* The first token whose hash verifies the presented secret.
Authenticate(secret) ==
    LET match == {i \in DOMAIN file.tokens : file.tokens[i].secret = secret}
    IN  IF match = {} THEN None ELSE file.tokens[First(match)]

\* The limiter's key.
KeyOf(path, token, s) == <<path, <<token.id, Canonical(s)>>>>

-----------------------------------------------------------------------------
(* load_security_config and SchemaRegistry                                 *)

KnownProjects(f) == {token.project : token \in Range(f.tokens)}

\* TokenStore::from_entries: there is a token, and every hash parses.
TokensLoad(f) == f.tokens # <<>> /\ \A token \in Range(f.tokens) : token.hashed

\* SchemaRegistry::load_with_options: the resources have distinct URIs, their
\* files and the schemas' can be read and compile.
SchemasLoad(f) ==
    /\ IsInjective([i \in DOMAIN f.resources |-> f.resources[i].uri])
    /\ \A r \in Range(f.resources) \cup Range(f.schemas) : r.compiles

\* load_security_config succeeds: the file parses, each schema entry names the
\* project of a token, and tokens and schemas load.
Loads(f) ==
    /\ f.parses
    /\ \A s \in Range(f.schemas) : s.project \in KnownProjects(f)
    /\ TokensLoad(f) /\ SchemasLoad(f)

\* HashMap::insert in load_with_options.
Insert(map, s) ==
    LET pk == <<s.project, s.kind>> IN
    [x \in DOMAIN map \cup {pk} |-> IF x = pk THEN s.accepts ELSE map[x]]

\* Its loop over the schema entries of the file.
Compiled(schemas) ==
    LET map[n \in 0 .. Len(schemas)] == IF n = 0 THEN <<>> ELSE Insert(map[n - 1], schemas[n])
    IN  map[Len(schemas)]

\* SchemaRegistry::validate: without a schema everything is valid.
Validate(project, kind, payload) ==
    <<project, kind>> \in DOMAIN registry => payload \in registry[<<project, kind>>]

\* main: the server starts, or gives up on its configuration.
Start(f) ==
    /\ server = "down"
    /\ server' = IF Loads(f) THEN "up" ELSE "refused"
    /\ file' = f
    /\ registry' = IF Loads(f) THEN Compiled(f.schemas) ELSE <<>>
    /\ UNCHANGED <<vars, req, calls, counters, stored>>

-----------------------------------------------------------------------------
(* auth_middleware                                                         *)

\* The answer to a request is counted once, whoever gives it.
Answer(h, path) ==
    /\ req' = [req EXCEPT ![h] = Idle]
    /\ requestsTotal' = [requestsTotal EXCEPT ![path] = @ + 1]

\* Defect: only successful requests are counted.
Refused_NotCounted(h) == req' = [req EXCEPT ![h] = Idle] /\ UNCHANGED requestsTotal

\* A handler answers with an error.
Refused(h) == Answer(h, req[h].call.path)

\* A request to an ingestion endpoint.  The header names a known secret, or the
\* answer is 401.
Arrive(h, c) ==
    LET token == Authenticate(c.secret) IN
    /\ server = "up" /\ calls < MaxCalls /\ req[h] = Idle
    /\ calls' = calls + 1
    /\ owed' = [owed EXCEPT ![c.path] = @ + 1]
    /\ IF token = None
         THEN Answer(h, c.path)
         ELSE /\ req' = [req EXCEPT ![h] = [pc |-> c.path, call |-> c, token |-> token,
                                            left |-> c.entries]]
              /\ UNCHANGED requestsTotal
    /\ UNCHANGED <<vars, server, file, registry, validationFailures, stored>>

\* The client goes away: the handler is dropped where it stands.
HangUp(h) ==
    /\ req[h] # Idle
    /\ req' = [req EXCEPT ![h] = Idle]
    /\ owed' = [owed EXCEPT ![req[h].call.path] = @ - 1]
    /\ UNCHANGED <<vars, server, file, registry, calls, requestsTotal, validationFailures, stored>>

\* What a request hands to the storage.
Item(h, entry) == [path |-> req[h].call.path, secret |-> req[h].call.secret,
                   source |-> entry.source, payload |-> entry.payload]

-----------------------------------------------------------------------------
(* LogsHandler::export                                                     *)

\* Defect: only the first entry is held against the schema.
BatchIsValid_FirstOnly(h) ==
    req[h].left # <<>> =>
        Validate(req[h].token.project, "log_attributes", Head(req[h].left).payload)

\* Every entry, under the token's project.
BatchIsValid(h) ==
    \A entry \in Range(req[h].left) :
        Validate(req[h].token.project, "log_attributes", entry.payload)

\* The version, then the schema of the whole batch.
LogsEnter(h) ==
    /\ req[h].pc = "logs"
    /\ \/ /\ ~req[h].call.version
          /\ Refused(h)
          /\ UNCHANGED validationFailures
       \/ /\ req[h].call.version /\ ~BatchIsValid(h)
          /\ validationFailures' = [validationFailures EXCEPT !["logs"] = @ + 1]
          /\ Refused(h)
       \/ /\ req[h].call.version /\ BatchIsValid(h)
          /\ req' = [req EXCEPT ![h].pc = "entries"]
          /\ UNCHANGED <<requestsTotal, validationFailures>>
    /\ UNCHANGED <<vars, server, file, registry, calls, owed, stored>>

\* Defect: the first entry's scope is taken for that of the whole batch.
EntryIsAllowed_FirstOnly(h) ==
    LET source == Head(req[h].left).source IN
    IsSourceKey(source) /\ (Permits(req[h].token, source) \/ req[h].left # req[h].call.entries)

EntryIsAllowed(h) ==
    LET source == Head(req[h].left).source IN
    IsSourceKey(source) /\ Permits(req[h].token, source)

\* An entry without a valid source that the token may write ends the request.
LogsEntryRefused(h) ==
    /\ req[h].pc = "entries" /\ req[h].left # <<>> /\ ~EntryIsAllowed(h)
    /\ Refused(h)
    /\ UNCHANGED <<vars, server, file, registry, calls, validationFailures, owed, stored>>

\* check_logs, then the entry's lines go to the writer of its source; the
\* writer's queue may be full after some of them.
LogsEntry(h) ==
    LET entry == Head(req[h].left)
        key == KeyOf("logs", req[h].token, entry.source)
    IN
    /\ req[h].pc = "entries" /\ req[h].left # <<>> /\ EntryIsAllowed(h)
    /\ Check(key)
    /\ \/ /\ Refilled(key, now) >= Token
          /\ stored' = stored \cup {Item(h, entry)}
          /\ \/ /\ req' = [req EXCEPT ![h].left = Tail(@)]
                /\ UNCHANGED requestsTotal
             \/ Refused(h)
       \/ /\ Refilled(key, now) < Token
          /\ Refused(h)
          /\ UNCHANGED stored
    /\ UNCHANGED <<server, file, registry, calls, validationFailures, owed>>

LogsDone(h) ==
    /\ req[h].pc = "entries" /\ req[h].left = <<>>
    /\ Answer(h, "logs")
    /\ UNCHANGED <<vars, server, file, registry, calls, validationFailures, owed, stored>>

-----------------------------------------------------------------------------
(* crashes_handler                                                         *)

Metadata(h) == Head(req[h].left)

\* Defect: the scope of the token is not looked at.
CrashIsWrong_NoScope(h) ==
    ~(req[h].call.wellFormed /\ req[h].call.version /\ IsSourceKey(Metadata(h).source))

\* What is wrong with an upload before it is charged: no multipart body with
\* readable metadata first, another version, a bad source, or one that the
\* token may not write.
CrashIsWrong(h) ==
    LET source == Metadata(h).source IN
    ~ /\ req[h].call.wellFormed /\ req[h].call.version
      /\ IsSourceKey(source) /\ Permits(req[h].token, source)

CrashRefused(h) ==
    /\ req[h].pc = "crashes" /\ CrashIsWrong(h)
    /\ Refused(h)
    /\ UNCHANGED <<vars, server, file, registry, calls, validationFailures, owed, stored>>

\* Defect: the limit is checked before the scope.
CrashEnter_ChargeFirst(h) ==
    LET meta == Metadata(h)
        key == KeyOf("crashes", req[h].token, meta.source)
        ok == Refilled(key, now) >= Token /\ ~CrashIsWrong(h)
    IN
    /\ req[h].pc = "crashes" /\ IsSourceKey(meta.source)
    /\ Check(key)
    /\ IF ok THEN req' = [req EXCEPT ![h].pc = "parts"] /\ UNCHANGED requestsTotal
             ELSE Refused(h)
    /\ UNCHANGED <<server, file, registry, calls, validationFailures, owed, stored>>

\* check_crashes, then the schema of the metadata, under the project of its
\* source.
CrashEnter(h) ==
    LET meta == Metadata(h)
        key == KeyOf("crashes", req[h].token, meta.source)
        granted == Refilled(key, now) >= Token
        valid == Validate(meta.source.project, "crash_metadata", meta.payload)
    IN
    /\ req[h].pc = "crashes" /\ ~CrashIsWrong(h)
    /\ Check(key)
    /\ \/ /\ granted /\ valid
          /\ req' = [req EXCEPT ![h].pc = "parts"]
          /\ UNCHANGED <<requestsTotal, validationFailures>>
       \/ /\ granted /\ ~valid
          /\ validationFailures' = [validationFailures EXCEPT !["crashes"] = @ + 1]
          /\ Refused(h)
       \/ /\ ~granted
          /\ Refused(h)
          /\ UNCHANGED validationFailures
    /\ UNCHANGED <<server, file, registry, calls, owed, stored>>

\* The parts are written and indexed, or something about them is wrong.
CrashParts(h) ==
    /\ req[h].pc = "parts"
    /\ \/ stored' = stored \cup {Item(h, Metadata(h))} /\ Answer(h, "crashes")
       \/ UNCHANGED stored /\ Refused(h)
    /\ UNCHANGED <<vars, server, file, registry, calls, validationFailures, owed>>

-----------------------------------------------------------------------------
Serve(h) ==
    \/ LogsEnter(h) \/ LogsEntryRefused(h) \/ LogsEntry(h) \/ LogsDone(h)
    \/ CrashRefused(h) \/ CrashEnter(h) \/ CrashParts(h)

\* Time and the limiter's observer.
Clock ==
    /\ Tick \/ OpenWindow
    /\ UNCHANGED <<server, file, registry, req, calls, counters, stored>>

GateNext ==
    \/ \E f \in ConfigFiles : Start(f)
    \/ \E h \in Handlers : (\E c \in Calls : Arrive(h, c)) \/ Serve(h) \/ HangUp(h)
    \/ Clock

GateSpec == GateInit /\ [][GateNext]_gateVars

-----------------------------------------------------------------------------
\* Values are in range; a request in progress was let in with a token of the
\* file, and an upload that reads its parts is one the token may make.
GateTypeOK ==
    /\ server \in {"down", "refused", "up"}
    /\ file \in ConfigFiles \cup {NoFile}
    /\ calls \in 0 .. MaxCalls
    /\ {requestsTotal, validationFailures, owed} \subseteq [Endpoints -> 0 .. MaxCalls]
    /\ \A h \in Handlers : req[h] # Idle =>
        /\ server = "up"
        /\ req[h].pc \in {"logs", "entries", "crashes", "parts"}
        /\ req[h].call \in Calls
        /\ req[h].token \in Range(file.tokens)
        /\ req[h].pc = "parts" => Metadata(h).source.project = req[h].token.project

\* The schema a reader of the tokens file expects to apply: its last entry for
\* the project and kind.
Expected(project, kind) ==
    LET at == {i \in DOMAIN file.schemas :
                file.schemas[i].project = project /\ file.schemas[i].kind = kind}
    IN  IF at = {} THEN {item.payload : item \in stored}
        ELSE file.schemas[CHOOSE i \in at : \A j \in at : j <= i].accepts

\* Whatever reaches the storage conforms to the schema configured for the
\* project it is stored under - though log batches are held against the schema
\* of the token's project and crashes against that of the uploaded metadata.
StoredIsValid ==
    \A item \in stored :
        item.payload \in Expected(item.source.project,
                                  IF item.path = "logs" THEN "log_attributes" ELSE "crash_metadata")

\* Whatever reaches the storage was sent with a secret of a token whose project
\* and source prefix cover the source it is stored under.
StoredInScope ==
    \A item \in stored : \E token \in Range(file.tokens) :
        /\ token.secret = item.secret
        /\ token.project = item.source.project
        /\ StartsWith(Canonical(item.source), token.prefix)

\* Sources that differ are stored in different directories, whatever projects
\* the tokens name and whatever install ids clients send.
SourcesApart ==
    \A x, y \in stored : Canonical(x.source) = Canonical(y.source) => x.source = y.source

\* A request that is refused for its token's scope leaves no trace in the
\* limiter: every bucket belongs to a source that the token of its key covers.
BucketsInScope ==
    \A k \in present : \E token \in Range(file.tokens) :
        /\ token.id = k[2][1]
        /\ StartsWith(k[2][2], token.prefix) /\ StartsWith(k[2][2], token.project \o <<"/">>)

\* requests_total counts every request to the ingestion endpoints exactly once,
\* the refused ones too, when it is answered - unless its client went away.
CountedOnce ==
    \A p \in Endpoints :
        owed[p] = requestsTotal[p] + Cardinality({h \in Handlers : req[h] # Idle /\ req[h].call.path = p})
=============================================================================
