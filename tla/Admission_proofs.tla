-------------------------- MODULE Admission_proofs --------------------------
(***************************************************************************)
(* Proofs about Admission, for any texts, settings and limits, and any set *)
(* of environments and requests.                                           *)
(***************************************************************************)
EXTENDS Admission, TLAPS

-----------------------------------------------------------------------------
(* What the operators of Configuration promise.                            *)

\* A list that was loaded is one of texts, whichever source it came from.
LEMMA ListedIsTexts ==
    ASSUME NEW env \in Environment, OneSource(env)
    PROVE  Listed(env) \in Seq(Text)
BY TokenAssumption DEF OneSource, FileSet, InlineSet, Listed

\* No text in force is blank: a caller without a token has none of them.
LEMMA BlankIsNoToken ==
    ASSUME NEW raw \in Seq(Text)
    PROVE  Blank \notin TokenTexts(raw)
BY DEF TokenTexts, Kept

\* A variable that is set to blank lists nothing.
LEMMA BlankListsNothing ==
    ASSUME NEW env \in Environment, env.TOKENS # None, ~InlineSet(env)
    PROVE  TokenTexts(env.TOKENS) = {}
<1>1. env.TOKENS \in Seq(Text) /\ Len(env.TOKENS) = 1 /\ TrimText[env.TOKENS[1]] = Blank
  BY TokenAssumption DEF InlineSet
<1>2. DOMAIN env.TOKENS = {1}
  BY <1>1
<1> QED BY <1>1, <1>2 DEF TokenTexts, Kept, Trimmed

-----------------------------------------------------------------------------
(* The inductive invariant.                                                *)

Checks == {"version", "route", "token", "body", "validate", "identifier"}

\* A server that runs has what its environment says.
Configured ==
    running => /\ given \in Environment
               /\ Loads(given)
               /\ tokens = TokenTexts(Listed(given))
               /\ config = Load(given)

\* Only a running server looks at requests, and only a refused one has an answer.
Looking ==
    /\ running \in BOOLEAN
    /\ request \in Requests
    /\ at \in Checks \cup {"idle", "store", "answered"}
    /\ at # "idle" => running
    /\ at # "answered" => answer = NoAnswer

\* What the check before has let through.
LetThrough ==
    /\ at = "token" => request.route \in {"sync", "remove", "devices"}
    /\ at \in {"body", "validate"} => request.route = "sync"
    /\ at = "identifier" => request.route = "remove"

\* The caller has one of the tokens, and its dataset.
Known ==
    /\ request.presented # None
    /\ TrimText[request.presented] \in tokens
    /\ dataset = DatasetOfToken[TrimText[request.presented]]

Identified ==
    \/ at \in {"body", "validate", "identifier"}
    \/ at = "store" /\ request.route # "health"
    \/ answer.status \in {400, 413}

\* Why a request was refused.
Reasons ==
    answer.status = 401 =>
        request.presented = None \/ TrimText[request.presented] \notin tokens

AdmissionInv ==
    Configured /\ Looking /\ LetThrough /\ (Identified => Known) /\ Reasons

-----------------------------------------------------------------------------
LEMMA InitInv == Init => AdmissionInv
<1> SUFFICES ASSUME Init PROVE AdmissionInv
  OBVIOUS
<1> USE DEF AdmissionInv, Configured, Looking, LetThrough, Identified, Reasons, Checks
<1>0. NoRequest \in Requests /\ NoAnswer.status = 0
  BY DEF NoRequest, Requests, Version, NoAnswer
<1>1. Configured
  BY <1>0 DEF Init
<1>2. Looking
  BY <1>0 DEF Init
<1>3. LetThrough
  BY <1>0 DEF Init
<1>4. (Identified => Known)
  BY <1>0 DEF Init
<1>5. Reasons
  BY <1>0 DEF Init
<1> QED BY <1>1, <1>2, <1>3, <1>4, <1>5

\* Starting and stopping happen between requests.
LEMMA ProcessKeepsInv ==
    ASSUME AdmissionInv
    PROVE  /\ \A env \in Environment : Start(env) => AdmissionInv'
           /\ Stop => AdmissionInv'
           /\ \A r \in Sent : Arrive(r) => AdmissionInv'
           /\ Finish => AdmissionInv'
<1> USE DEF AdmissionInv, Configured, Looking, LetThrough, Identified, Reasons, Checks, Known
<1>0. NoRequest \in Requests /\ NoAnswer.status = 0
  BY DEF NoRequest, Requests, Version, NoAnswer
<1>1. ASSUME NEW env \in Environment, Start(env) PROVE AdmissionInv'
  <2>1. Configured'
    BY <1>0, <1>1 DEF Start
  <2>2. Looking'
    BY <1>0, <1>1 DEF Start
  <2>3. LetThrough'
    BY <1>0, <1>1 DEF Start
  <2>4. (Identified => Known)'
    BY <1>0, <1>1 DEF Start
  <2>5. Reasons'
    BY <1>0, <1>1 DEF Start
  <2> QED BY <2>1, <2>2, <2>3, <2>4, <2>5
<1>2. ASSUME Stop PROVE AdmissionInv'
  <2>1. Configured'
    BY <1>0, <1>2 DEF Stop
  <2>2. Looking'
    BY <1>0, <1>2 DEF Stop
  <2>3. LetThrough'
    BY <1>0, <1>2 DEF Stop
  <2>4. (Identified => Known)'
    BY <1>0, <1>2 DEF Stop
  <2>5. Reasons'
    BY <1>0, <1>2 DEF Stop
  <2> QED BY <2>1, <2>2, <2>3, <2>4, <2>5
<1>3. ASSUME NEW r \in Sent, Arrive(r) PROVE AdmissionInv'
  <2>1. Configured'
    BY <1>0, <1>3, SentAssumption DEF Arrive, processVars
  <2>2. Looking'
    BY <1>0, <1>3, SentAssumption DEF Arrive, processVars
  <2>3. LetThrough'
    BY <1>0, <1>3, SentAssumption DEF Arrive, processVars
  <2>4. (Identified => Known)'
    BY <1>0, <1>3, SentAssumption DEF Arrive, processVars
  <2>5. Reasons'
    BY <1>0, <1>3, SentAssumption DEF Arrive, processVars
  <2> QED BY <2>1, <2>2, <2>3, <2>4, <2>5
<1>4. ASSUME Finish PROVE AdmissionInv'
  <2>1. Configured'
    BY <1>0, <1>4 DEF Finish, processVars
  <2>2. Looking'
    BY <1>0, <1>4 DEF Finish, processVars
  <2>3. LetThrough'
    BY <1>0, <1>4 DEF Finish, processVars
  <2>4. (Identified => Known)'
    BY <1>0, <1>4 DEF Finish, processVars
  <2>5. Reasons'
    BY <1>0, <1>4 DEF Finish, processVars
  <2> QED BY <2>1, <2>2, <2>3, <2>4, <2>5
<1> QED BY <1>1, <1>2, <1>3, <1>4

\* Where a request goes from the router, and from decoding.
LEMMA RouteActs ==
    ASSUME Route, request \in Requests
    PROVE  /\ at = "route"
           /\ \/ request.route = "unserved" /\ Refuse(404, "malformedRequest")
              \/ request.route = "health" /\ Pass("store")
              \/ request.route \in {"sync", "remove", "devices"} /\ Pass("token")
<1>1. request.route \in {"unserved", "health", "sync", "remove", "devices"}
  BY DEF Requests
<1>2. CASE request.route = "unserved"
  BY ZenonT(30), <1>2 DEF Route
<1>3. CASE request.route = "health"
  BY ZenonT(30), <1>3 DEF Route
<1>4. CASE request.route \in {"sync", "remove", "devices"}
  <2>1. request.route # "unserved" /\ request.route # "health"
    BY <1>4
  <2> QED BY <1>4, <2>1 DEF Route
<1> QED BY <1>1, <1>2, <1>3, <1>4

LEMMA DecodeActs ==
    ASSUME Decode
    PROVE  /\ at = "body"
           /\ \E status \in {400, 413} : \/ Refuse(status, "malformedRequest")
                                        \/ Pass("validate")
<1>1. CASE request.body.json = "tooLarge"
  BY <1>1 DEF Decode
<1>2. CASE request.body.json = "object"
  BY <1>2 DEF Decode
<1>3. CASE request.body.json # "tooLarge" /\ request.body.json # "object"
  BY <1>3 DEF Decode
<1> QED BY <1>1, <1>2, <1>3

\* A check that lets a request through to the next one, or to the store.
LEMMA PassKeepsInv ==
    ASSUME AdmissionInv, at \in Checks, answer.status = 0,
           NEW next \in (Checks \ {"version"}) \cup {"store"}, Pass(next),
           next = "token" => request.route \in {"sync", "remove", "devices"},
           next \in {"body", "validate"} => request.route = "sync",
           next = "identifier" => request.route = "remove",
           next \in {"body", "validate", "identifier"}
               \/ (next = "store" /\ request.route # "health") => Known
    PROVE  AdmissionInv'
<1> USE DEF AdmissionInv, Configured, Looking, LetThrough, Identified, Reasons, Checks, Known,
            processVars, Pass
<1>1. Configured'
  OBVIOUS
<1>2. Looking'
  OBVIOUS
<1>3. LetThrough'
  OBVIOUS
<1>4. (Identified => Known)'
  OBVIOUS
<1>5. Reasons'
  OBVIOUS
<1> QED BY <1>1, <1>2, <1>3, <1>4, <1>5

\* A check that refuses it.
LEMMA RefuseKeepsInv ==
    ASSUME AdmissionInv, at \in Checks,
           NEW status \in Nat, NEW reason, Refuse(status, reason),
           status \in {400, 413} => Known,
           status = 401 =>
              request.presented = None \/ TrimText[request.presented] \notin tokens
    PROVE  AdmissionInv'
<1> USE DEF AdmissionInv, Configured, Looking, LetThrough, Identified, Reasons, Checks, Known,
            processVars, Refuse
<1>0. at' = "answered" /\ answer'.status = status
  OBVIOUS
<1>1. Configured'
  OBVIOUS
<1>2. Looking'
  BY <1>0
<1>3. LetThrough'
  BY <1>0
<1>4. (Identified => Known)'
  BY <1>0
<1>5. Reasons'
  BY <1>0
<1> QED BY <1>1, <1>2, <1>3, <1>4, <1>5

\* A token that is configured.
LEMMA TokenKeepsInv ==
    ASSUME AdmissionInv, CheckToken, request.route \in {"sync", "remove", "devices"},
           (IF request.presented = None THEN Blank ELSE TrimText[request.presented]) \in tokens
    PROVE  AdmissionInv'
<1>1. at = "token" /\ running /\ answer.status = 0
  BY DEF CheckToken, AdmissionInv, Looking, LetThrough, Checks, NoAnswer
<1>2. request.presented # None
  BY <1>1, ListedIsTexts, BlankIsNoToken DEF AdmissionInv, Configured, Loads
<1>3. /\ at' = AfterToken
      /\ dataset' = DatasetOfToken[TrimText[request.presented]]
      /\ UNCHANGED <<processVars, request, answer>>
  BY <1>2 DEF CheckToken
<1>4. \/ request.route = "sync" /\ at' = "body"
      \/ request.route = "remove" /\ at' = "identifier"
      \/ request.route = "devices" /\ at' = "store"
  BY <1>3 DEF AfterToken
<1>5. Known'
  BY <1>2, <1>3 DEF Known, processVars
<1> USE DEF AdmissionInv, Configured, Looking, LetThrough, Identified, Reasons, Checks, processVars
<1>6. Configured'
  BY <1>3
<1>7. Looking'
  BY <1>1, <1>3, <1>4
<1>8. LetThrough'
  BY <1>1, <1>3, <1>4
<1>9. Reasons'
  BY <1>1, <1>3
<1> QED BY <1>5, <1>6, <1>7, <1>8, <1>9

\* Each check keeps what the ones before it found.
LEMMA ChecksKeepInv ==
    ASSUME AdmissionInv
    PROVE  /\ CheckVersion => AdmissionInv'
           /\ Route => AdmissionInv'
           /\ CheckToken => AdmissionInv'
           /\ Decode => AdmissionInv'
           /\ Validate => AdmissionInv'
           /\ CheckIdentifier => AdmissionInv'
<1>0. request \in Requests
  BY DEF AdmissionInv, Looking
<1>a. at \in Checks => answer.status = 0
  BY DEF AdmissionInv, Looking, Checks, NoAnswer
<1>c. at \in {"body", "validate", "identifier"} => Known
  BY DEF AdmissionInv, Identified
<1> USE DEF Checks
<1>1. ASSUME CheckVersion PROVE AdmissionInv'
  <2>1. CASE request.version = "other"
    BY <1>1, <2>1, RefuseKeepsInv DEF CheckVersion
  <2>2. CASE request.version # "other"
    BY <1>a, <1>1, <2>2, PassKeepsInv DEF CheckVersion
  <2> QED BY <2>1, <2>2
<1>2. ASSUME Route PROVE AdmissionInv'
  <2>1. CASE Refuse(404, "malformedRequest")
    BY <1>0, <1>2, <2>1, RouteActs, RefuseKeepsInv
  <2>2. CASE request.route = "health" /\ Pass("store")
    BY <1>0, <1>a, <1>2, <2>2, RouteActs, PassKeepsInv
  <2>3. CASE request.route \in {"sync", "remove", "devices"} /\ Pass("token")
    BY <1>0, <1>a, <1>2, <2>3, RouteActs, PassKeepsInv
  <2> QED BY <1>0, <1>2, <2>1, <2>2, <2>3, RouteActs
<1>3. ASSUME CheckToken PROVE AdmissionInv'
  <2> DEFINE presented == IF request.presented = None THEN Blank ELSE TrimText[request.presented]
  <2>0. at = "token" /\ request.route \in {"sync", "remove", "devices"}
    BY <1>3 DEF CheckToken, AdmissionInv, LetThrough
  <2>1. CASE presented \in tokens
    BY <1>3, <2>0, <2>1, TokenKeepsInv DEF CheckToken
  <2>2. CASE presented \notin tokens
    <3>1. Refuse(401, "invalidCredentials")
      BY <1>3, <2>2 DEF CheckToken
    <3> QED BY <2>0, <2>2, <3>1, RefuseKeepsInv
  <2> QED BY <2>1, <2>2
<1>4. ASSUME Decode PROVE AdmissionInv'
  <2>1. at = "body" /\ request.route = "sync"
    BY <1>4 DEF Decode, AdmissionInv, LetThrough
  <2>2. ASSUME NEW status \in {400, 413}, Refuse(status, "malformedRequest") PROVE AdmissionInv'
    BY <1>c, <2>1, <2>2, RefuseKeepsInv
  <2>3. CASE Pass("validate")
    BY <1>a, <1>c, <2>1, <2>3, PassKeepsInv
  <2> QED BY <1>4, <2>2, <2>3, DecodeActs
<1>5. ASSUME Validate PROVE AdmissionInv'
  <2>1. at = "validate" /\ request.route = "sync"
    BY <1>5 DEF Validate, AdmissionInv, LetThrough
  <2>2. CASE IsValid(request.body)
    <3>1. Pass("store")
      BY <1>5, <2>2 DEF Validate
    <3> QED BY <1>a, <1>c, <2>1, <2>2, <3>1, PassKeepsInv
  <2>3. CASE ~IsValid(request.body)
    <3>1. Refuse(400, "malformedRequest")
      BY <1>5, <2>3 DEF Validate
    <3> QED BY <1>c, <2>1, <3>1, RefuseKeepsInv
  <2> QED BY <2>2, <2>3
<1>6. ASSUME CheckIdentifier PROVE AdmissionInv'
  <2>1. at = "identifier" /\ request.route = "remove"
    BY <1>6 DEF CheckIdentifier, AdmissionInv, LetThrough
  <2>2. CASE IsIdentifier(PathIdentifier(request.device))
    <3>1. Pass("store")
      BY <1>6, <2>2 DEF CheckIdentifier
    <3> QED BY <1>a, <1>c, <2>1, <3>1, PassKeepsInv
  <2>3. CASE ~IsIdentifier(PathIdentifier(request.device))
    <3>1. Refuse(400, "malformedRequest")
      BY <1>6, <2>3 DEF CheckIdentifier
    <3> QED BY <1>c, <2>1, <2>3, <3>1, RefuseKeepsInv
  <2> QED BY <2>2, <2>3
<1> QED BY <1>1, <1>2, <1>3, <1>4, <1>5, <1>6

LEMMA StepKeepsInv == AdmissionInv /\ [Next]_admissionVars => AdmissionInv'
<1> SUFFICES ASSUME AdmissionInv, [Next]_admissionVars PROVE AdmissionInv'
  OBVIOUS
<1>1. CASE Next
  BY <1>1, ProcessKeepsInv, ChecksKeepInv DEF Next
<1>2. CASE UNCHANGED admissionVars
  BY <1>2 DEF admissionVars, processVars, AdmissionInv, Configured, Looking, LetThrough,
              Identified, Known, Reasons
<1> QED BY <1>1, <1>2

-----------------------------------------------------------------------------
(* The theorems.                                                           *)

\* A running server has the tokens and settings of its environment, a request
\* has passed the checks before the one it is at, and a refusal has its reason.
THEOREM AdmissionInvariant == Spec => []AdmissionInv
BY InitInv, StepKeepsInv, PTL DEF Spec

\* No two tokens of a running server's operator reach one dataset, for every list
\* and whatever counts as white space (config.go:190-192).
THEOREM TokensHaveOwnDatasets == Spec => []TokensSelectOwnDatasets
<1>1. AdmissionInv => TokensSelectOwnDatasets
  <2> SUFFICES ASSUME AdmissionInv, running,
                      NEW i \in Kept(Listed(given)), NEW j \in Kept(Listed(given)),
                      DatasetOfToken[TrimText[Listed(given)[i]]]
                          = DatasetOfToken[TrimText[Listed(given)[j]]]
               PROVE  i = j
    BY DEF TokensSelectOwnDatasets
  <2>1. Listed(given) \in Seq(Text) /\ Acceptable(Listed(given))
    BY ListedIsTexts DEF AdmissionInv, Configured, Loads
  <2>2. /\ i \in DOMAIN Listed(given) /\ Trimmed(Listed(given))[i] = TrimText[Listed(given)[i]]
        /\ j \in DOMAIN Listed(given) /\ Trimmed(Listed(given))[j] = TrimText[Listed(given)[j]]
    BY DEF Kept, Trimmed
  <2>3. TrimText[Listed(given)[i]] \in Text /\ TrimText[Listed(given)[j]] \in Text
    BY <2>1, <2>2, TextAssumption
  <2>4. TrimText[Listed(given)[i]] = TrimText[Listed(given)[j]]
    BY <2>3, TokenAssumption
  <2> QED BY <2>1, <2>2, <2>4 DEF Acceptable
<1> QED BY <1>1, AdmissionInvariant, PTL

\* A token that was given is never answered 401 (config.go:182, server.go:154).
THEOREM GivenTokensAreAccepted == Spec => []TokenGivenIsAccepted
<1>1. AdmissionInv => TokenGivenIsAccepted
  BY DEF AdmissionInv, Configured, Looking, Reasons, NoAnswer, TokenGivenIsAccepted
<1> QED BY <1>1, AdmissionInvariant, PTL

\* Whatever is set is in force or warned of, in every environment that starts a
\* server (config.go:11-13, 57-61, 92-94).
THEOREM NothingIsIgnored == Spec => []NothingSetIsIgnored
<1>1. AdmissionInv => NothingSetIsIgnored
  <2> SUFFICES ASSUME AdmissionInv, running,
                      NEW n \in DOMAIN given \ Unrecognised(given), given[n] # None
               PROVE  InForce(n)
    BY DEF NothingSetIsIgnored
  <2>1. given \in Environment /\ Loads(given) /\ tokens = TokenTexts(Listed(given))
        /\ config = Load(given)
    BY DEF AdmissionInv, Configured
  <2>2. n \in Variables
    BY DEF Unrecognised
  <2>3. CASE n = "TOKENS"
    <3>1. TokenTexts(given.TOKENS) \subseteq tokens
      <4>1. CASE InlineSet(given)
        BY <2>1, <4>1 DEF Loads, OneSource, Listed
      <4>2. CASE ~InlineSet(given)
        BY <2>1, <2>3, <4>2, BlankListsNothing
      <4> QED BY <4>1, <4>2
    <3> QED BY <2>3, <3>1 DEF InForce
  <2>4. CASE n = "TOKENS_FILE"
    <3>1. FileSet(given) => TokenTexts(given.TOKENS_FILE) \subseteq tokens
      BY <2>1 DEF Listed
    <3> QED BY <2>4, <3>1 DEF InForce
  <2>5. CASE n = "HOST"
    <3>1. config.host = TrimText[given.HOST]
      BY <2>1, <2>5 DEF Load, TextOr
    <3> QED BY <2>5, <3>1 DEF InForce
  <2>6. CASE n = "PORT"
    <3>1. config.port = NumberOf[TrimText[given.PORT]] /\ config.port \in 1..MaxPort
      BY <2>1, <2>6 DEF Load, PortOr, Loads, IsPort
    <3> QED BY <2>6, <3>1 DEF InForce
  <2>7. CASE n = "DATABASE"
    <3>1. config.database = TrimText[given.DATABASE]
      BY <2>1, <2>7 DEF Load, TextOr
    <3> QED BY <2>7, <3>1 DEF InForce
  <2>8. CASE n = "LOG_LEVEL"
    <3>1. config.level = LevelOf[TrimText[given.LOG_LEVEL]] /\ config.level # None
      BY <2>1, <2>8 DEF Load, LevelOr, Loads, IsLevel
    <3> QED BY <2>8, <3>1 DEF InForce
  <2> QED BY <2>2, <2>3, <2>4, <2>5, <2>6, <2>7, <2>8 DEF Variables
<1> QED BY <1>1, AdmissionInvariant, PTL

\* 400, 413 and the store are for callers with a token only, and they reach that
\* token's dataset (server.go:165-179, 258-268).
THEOREM ContentNeedsToken == Spec => []ContentIsBehindToken
<1>1. AdmissionInv => ContentIsBehindToken
  BY DEF AdmissionInv, Identified, Known, ContentIsBehindToken
<1> QED BY <1>1, AdmissionInvariant, PTL

=============================================================================
