--------------------------- MODULE Configuration ---------------------------
(***************************************************************************)
(* What config.go makes of the environment.  An environment is a function  *)
(* from the names that start with CMDV_SYNC_, without that prefix, to what *)
(* they are set to.  A list of tokens is the texts between its separators, *)
(* a file of tokens its lines; other settings are told apart only by what  *)
(* reading them looks at.                                                  *)
(***************************************************************************)
EXTENDS Integers, Sequences

CONSTANTS
    Text,        \* texts as given or presented, white space included
    TrimText,    \* strings.TrimSpace on them
    Blank,       \* the empty text
    Short,       \* texts below config.MinimumTokenLength
    None,        \* a variable that is not set
    Unreadable,  \* a path that os.ReadFile fails on
    NumberOf,    \* strconv.Atoi: the number a text stands for, or None
    LevelOf,     \* parseLevel: the level a text names, or None
    MaxPort,     \* 65535
    Default      \* DefaultHost, DefaultPort, DefaultDatabase and slog.LevelInfo

ASSUME TextAssumption ==
    /\ Blank \in Text /\ None \notin Text
    /\ TrimText \in [Text -> Text]
    /\ \A t \in Text : TrimText[TrimText[t]] = TrimText[t]

ASSUME SettingAssumption ==
    /\ NumberOf \in [Text -> Int \cup {None}]
    /\ None \notin Int
    /\ MaxPort \in Nat

-----------------------------------------------------------------------------
(* Tokens.                                                                 *)

Trimmed(raw) == [i \in DOMAIN raw |-> TrimText[raw[i]]]

Kept(raw) == {i \in DOMAIN raw : Trimmed(raw)[i] # Blank}

\* WRONG: looks for a token listed twice before white space is cut off.
AcceptableAsGiven(raw) ==
    /\ Kept(raw) # {}
    /\ \A i \in Kept(raw) : Trimmed(raw)[i] \notin Short
    /\ \A i, j \in Kept(raw) : raw[i] = raw[j] => i = j

\* validateTokens: at least one token, none short, none twice.
Acceptable(raw) ==
    /\ Kept(raw) # {}
    /\ \A i \in Kept(raw) : Trimmed(raw)[i] \notin Short
    /\ \A i, j \in Kept(raw) : Trimmed(raw)[i] = Trimmed(raw)[j] => i = j

TokenTexts(raw) == {Trimmed(raw)[i] : i \in Kept(raw)}

\* For the two sources of tokens, and for no other variable, blank is not set.
InlineSet(env) ==
    env.TOKENS # None /\ ~(Len(env.TOKENS) = 1 /\ TrimText[env.TOKENS[1]] = Blank)

FileSet(env) == env.TOKENS_FILE \notin {None, Blank}

\* WRONG: when both are set the file is preferred.
SomeSource(env) ==
    /\ InlineSet(env) \/ FileSet(env)
    /\ env.TOKENS_FILE # Unreadable

\* One of the two is set; both are refused, so there is no question which holds.
OneSource(env) ==
    /\ InlineSet(env) # FileSet(env)
    /\ env.TOKENS_FILE # Unreadable

Listed(env) == IF FileSet(env) THEN env.TOKENS_FILE ELSE env.TOKENS

-----------------------------------------------------------------------------
(* The other variables: text and number.                                   *)

\* Not set is the default; set to nothing is refused.
IsText(v) == v # None => TrimText[v] # Blank

TextOr(v, default) == IF v = None THEN default ELSE TrimText[v]

IsPort(v) ==
    v # None => /\ IsText(v)
                /\ NumberOf[TrimText[v]] \in 1..MaxPort

PortOr(v, default) == IF v = None THEN default ELSE NumberOf[TrimText[v]]

IsLevel(v) == v # None => IsText(v) /\ LevelOf[TrimText[v]] # None

LevelOr(v, default) == IF v = None THEN default ELSE LevelOf[TrimText[v]]

-----------------------------------------------------------------------------

\* Load succeeds; otherwise the process names the variable at fault and exits.
Loads(env) ==
    /\ OneSource(env)
    /\ Acceptable(Listed(env))
    /\ IsText(env.HOST)
    /\ IsPort(env.PORT)
    /\ IsText(env.DATABASE)
    /\ IsLevel(env.LOG_LEVEL)

Load(env) ==
    [host     |-> TextOr(env.HOST, Default.host),
     port     |-> PortOr(env.PORT, Default.port),
     database |-> TextOr(env.DATABASE, Default.database),
     level    |-> LevelOr(env.LOG_LEVEL, Default.level)]

Variables == {"TOKENS", "TOKENS_FILE", "HOST", "PORT", "DATABASE", "LOG_LEVEL"}

\* Names that are set and that nothing reads: they are warned of.
Unrecognised(env) == {n \in DOMAIN env : env[n] # None} \ Variables

=============================================================================
