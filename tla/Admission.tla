----------------------------- MODULE Admission -----------------------------
(***************************************************************************)
(* What happens before a handler reaches the store: the environment that   *)
(* the process is started in, and the checks of server.go and types.go     *)
(* that a request passes, in their order.  Each check answers the request  *)
(* or lets it through to the next; none touches the store.                 *)
(***************************************************************************)
EXTENDS Configuration

CONSTANTS
    Environment,           \* what an operator may set (BOUND)
    DatasetOfToken,        \* auth.Dataset
    Identifier,            \* device identifiers and names
    Body,                  \* bodies of sync requests
    Sent,                  \* the requests that are sent (BOUND)
    MaxIdentifierBytes,    \* api.MaxIdentifierBytes
    MaxBlobBytes,          \* api.MaxBlobBytes
    MaxEntriesPerRequest   \* api.MaxEntriesPerRequest

\* Datasets are 64 bits of a hash: no two tokens are taken to collide.
ASSUME TokenAssumption ==
    /\ \A t, u \in Text : DatasetOfToken[t] = DatasetOfToken[u] => t = u
    /\ \A env \in Environment :
          /\ Variables \subseteq DOMAIN env
          /\ env.TOKENS \in Seq(Text) \cup {None}
          /\ env.TOKENS_FILE \in Seq(Text) \cup {None, Blank, Unreadable}
          /\ \A n \in {"HOST", "PORT", "DATABASE", "LOG_LEVEL"} : env[n] \in Text \cup {None}

\* core: the bytes between the outermost printable characters; pad: the white
\* space around them; control: where control characters stand, if anywhere.
ASSUME IdentifierAssumption ==
    Identifier \subseteq [core : Nat, pad : Nat, control : {"none", "core", "pad"}]

\* json: what decoding the body comes to; blobs: the size of each.
ASSUME BodyAssumption ==
    Body \subseteq [json : {"object", "malformed", "trailing", "tooLarge"},
                   device : Identifier, name : Identifier, cursor : Int, blobs : Seq(Nat)]

ASSUME LimitAssumption ==
    MaxIdentifierBytes \in Nat /\ MaxBlobBytes \in Nat /\ MaxEntriesPerRequest \in Nat

VARIABLES
    running,   \* whether the process serves
    given,     \* the environment its operator started it in
    tokens,    \* auth.TokenSet
    config,    \* the other settings in force
    request,   \* the request being looked at
    at,        \* the next check
    dataset,   \* the dataset its token selects
    answer     \* the status and reason of the refusal

processVars == <<running, given, tokens, config>>
admissionVars == <<processVars, request, at, dataset, answer>>

Version == {"absent", "current", "other"}

\* What a caller may send; the routes that have a body or an identifier say more.
Requests ==
    [version : Version, route : {"sync"}, presented : Text \cup {None}, body : Body]
    \cup
    [version : Version, route : {"remove"}, presented : Text \cup {None}, device : Identifier]
    \cup
    [version : Version, route : {"devices", "health", "unserved"}, presented : Text \cup {None}]

ASSUME SentAssumption == Sent \subseteq Requests

NoRequest == [version |-> "absent", route |-> "unserved", presented |-> None]

NoAnswer == [status |-> 0, reason |-> "none"]

Init ==
    /\ running = FALSE
    /\ given = None
    /\ tokens = {}
    /\ config = Default
    /\ request = NoRequest
    /\ at = "idle"
    /\ dataset = None
    /\ answer = NoAnswer

-----------------------------------------------------------------------------
(* Starting and stopping.                                                  *)

\* A process whose environment is refused exits: nothing runs, as before.
Start(env) ==
    /\ ~running
    /\ Loads(env)
    /\ running' = TRUE
    /\ given' = env
    /\ tokens' = TokenTexts(Listed(env))
    /\ config' = Load(env)
    /\ UNCHANGED <<request, at, dataset, answer>>

\* Stopped between requests; the next start may find another environment.
Stop ==
    /\ running
    /\ at = "idle"
    /\ running' = FALSE
    /\ given' = None
    /\ tokens' = {}
    /\ config' = Default
    /\ UNCHANGED <<request, at, dataset, answer>>

-----------------------------------------------------------------------------
(* The checks.                                                             *)

Arrive(r) ==
    /\ running
    /\ at = "idle"
    /\ request' = r
    /\ at' = "version"
    /\ UNCHANGED <<processVars, dataset, answer>>

Pass(next) == at' = next /\ UNCHANGED <<processVars, request, dataset, answer>>

Refuse(status, reason) ==
    /\ at' = "answered"
    /\ answer' = [status |-> status, reason |-> reason]
    /\ UNCHANGED <<processVars, request, dataset>>

\* No version header is taken for the current version.
CheckVersion ==
    /\ at = "version"
    /\ IF request.version = "other" THEN Refuse(409, "versionUnsupported") ELSE Pass("route")

\* WRONG: a sync goes to its body without a look at the token.
RouteUnchecked ==
    /\ at = "route"
    /\ CASE request.route = "unserved" -> Refuse(404, "malformedRequest")
         [] request.route = "health"   -> Pass("store")
         [] request.route = "sync"     -> Pass("body")
         [] OTHER                      -> Pass("token")

Route ==
    /\ at = "route"
    /\ CASE request.route = "unserved" -> Refuse(404, "malformedRequest")
         [] request.route = "health"   -> Pass("store")
         [] OTHER                      -> Pass("token")

AfterToken ==
    CASE request.route = "sync"    -> "body"
      [] request.route = "remove"  -> "identifier"
      [] request.route = "devices" -> "store"

\* WRONG: the token as it was presented, white space included.
CheckTokenAsPresented ==
    /\ at = "token"
    /\ IF request.presented \in tokens
       THEN /\ at' = AfterToken
            /\ dataset' = DatasetOfToken[request.presented]
            /\ UNCHANGED <<processVars, request, answer>>
       ELSE Refuse(401, "invalidCredentials")

\* No token, a blank one and one that is not configured are answered alike.
CheckToken ==
    LET presented == IF request.presented = None THEN Blank ELSE TrimText[request.presented]
    IN  /\ at = "token"
        /\ IF presented \in tokens
           THEN /\ at' = AfterToken
                /\ dataset' = DatasetOfToken[presented]
                /\ UNCHANGED <<processVars, request, answer>>
           ELSE Refuse(401, "invalidCredentials")

\* One JSON object, read up to MaxBodyBytes, and nothing after it.
Decode ==
    /\ at = "body"
    /\ CASE request.body.json = "tooLarge" -> Refuse(413, "malformedRequest")
         [] request.body.json = "object"   -> Pass("validate")
         [] OTHER                     -> Refuse(400, "malformedRequest")

\* types.go's identifier.
IsIdentifier(v) ==
    /\ v.core > 0
    /\ v.core + v.pad <= MaxIdentifierBytes
    /\ v.control = "none"

IsValid(r) ==
    /\ IsIdentifier(r.device)
    /\ IsIdentifier(r.name)
    /\ r.cursor >= 0
    /\ Len(r.blobs) <= MaxEntriesPerRequest
    /\ \A i \in 1..Len(r.blobs) : r.blobs[i] \in 1..MaxBlobBytes

Validate ==
    /\ at = "validate"
    /\ IF IsValid(request.body) THEN Pass("store") ELSE Refuse(400, "malformedRequest")

\* The identifier in a DELETE's path, without the white space around it.
PathIdentifier(v) ==
    [v EXCEPT !.pad = 0, !.control = IF @ = "pad" THEN "none" ELSE @]

CheckIdentifier ==
    /\ at = "identifier"
    /\ IF IsIdentifier(PathIdentifier(request.device))
       THEN Pass("store")
       ELSE Refuse(400, "malformedRequest")

\* The request was refused, or the handler went on to the store: see SyncServer.
Finish ==
    /\ at \in {"answered", "store"}
    /\ request' = NoRequest
    /\ at' = "idle"
    /\ dataset' = None
    /\ answer' = NoAnswer
    /\ UNCHANGED processVars

-----------------------------------------------------------------------------

Next ==
    \/ \E env \in Environment : Start(env)
    \/ Stop
    \/ \E r \in Sent : Arrive(r)
    \/ CheckVersion
    \/ Route
    \/ CheckToken
    \/ Decode
    \/ Validate
    \/ CheckIdentifier
    \/ Finish

Spec == Init /\ [][Next]_admissionVars

-----------------------------------------------------------------------------
(* Properties.                                                             *)

\* While a server runs, no two tokens its operator wrote down reach one
\* dataset, however they are spaced (config.go:190-192).
TokensSelectOwnDatasets ==
    running => \A i, j \in Kept(Listed(given)) :
        DatasetOfToken[TrimText[Listed(given)[i]]] = DatasetOfToken[TrimText[Listed(given)[j]]]
            => i = j

\* A token the operator gave is never answered 401, however either side spaced
\* it: config.go:182 and server.go:154 cut off the same.
TokenGivenIsAccepted ==
    (answer.status = 401 /\ request.presented # None) =>
        TrimText[request.presented] \notin TokenTexts(Listed(given))

\* What it means that a variable is in force: the whole of a list of tokens, a
\* port that is one, a level there is.  A blank source of tokens beside one that
\* is set asks for nothing here, and counts as in force: config.go:151-152 takes
\* it for a source that is not there, and the process starts without a word of it.
InForce(n) ==
    CASE n = "TOKENS"      -> TokenTexts(given.TOKENS) \subseteq tokens
      [] n = "TOKENS_FILE" -> FileSet(given) => TokenTexts(given.TOKENS_FILE) \subseteq tokens
      [] n = "HOST"        -> config.host = TrimText[given.HOST]
      [] n = "PORT"        -> config.port = NumberOf[TrimText[given.PORT]]
                              /\ config.port \in 1..MaxPort
      [] n = "DATABASE"    -> config.database = TrimText[given.DATABASE]
      [] n = "LOG_LEVEL"   -> config.level = LevelOf[TrimText[given.LOG_LEVEL]]
                              /\ config.level # None
      [] OTHER             -> FALSE

\* A server does not start and ignore what it was told: whatever of its own
\* names is set is in force or warned of (config.go:11-13, 57-61, 92-94).
NothingSetIsIgnored ==
    running => \A n \in DOMAIN given \ Unrecognised(given) : given[n] # None => InForce(n)

\* Nothing is said of a request's content to a caller without a token: 400, 413
\* and the store are behind the 401 (server.go:165-179, 258-268).
ContentIsBehindToken ==
    (answer.status \in {400, 413} \/ (at = "store" /\ request.route # "health")) =>
        /\ request.presented # None
        /\ TrimText[request.presented] \in tokens
        /\ dataset = DatasetOfToken[TrimText[request.presented]]

=============================================================================
