---------------------------- MODULE MCAdmission ----------------------------
(* A small instance of Admission for TLC. *)
EXTENDS Admission, TLC

CONSTANTS t1, t1padded, t2, t2short, blank, zero, low, lowpadded, top, above, debug

Trimming == [t \in Text |-> CASE t = t1padded -> t1 [] t = lowpadded -> low [] OTHER -> t]
Hash == [t \in Text |-> <<"dataset", t>>]
Numbers == [t \in Text |-> CASE t = zero -> 0 [] t = low -> 1 [] t = top -> MaxPort
                             [] t = above -> MaxPort + 1 [] OTHER -> None]
Levels == [t \in Text |-> IF t = debug THEN "debug" ELSE None]
Defaults == [host |-> "any", port |-> 8080, database |-> "data", level |-> "info"]

\* Every pair of tokens in the variable or in the file, and both of them set.
Tokens == {t1, t1padded, t2, t2short, blank}
Lists == UNION {[1..n -> Tokens] : n \in 1..2}
Unset == [n \in Variables |-> None] @@ [PROT |-> None]
TokenSources ==
    {[Unset EXCEPT !.TOKENS = l, !.TOKENS_FILE = f] : l \in Lists, f \in {None, blank}}
    \cup {[Unset EXCEPT !.TOKENS_FILE = f] : f \in {<<>>, Unreadable} \cup Lists}
    \cup {[Unset EXCEPT !.TOKENS = l, !.TOKENS_FILE = f] :
            l \in {<<blank>>, <<t1>>}, f \in {<<t1>>, <<t2>>, Unreadable}}

\* Each other setting at its edges, and a name nothing reads.
OneToken == [Unset EXCEPT !.TOKENS = <<t1>>]
Settings ==
    {[OneToken EXCEPT ![n] = v] : n \in {"HOST", "DATABASE"}, v \in {blank, low, lowpadded}}
    \cup {[OneToken EXCEPT !.PORT = v, !.PROT = p] :
            v \in {None, blank, zero, low, lowpadded, top, above, debug}, p \in {None, low}}
    \cup {[OneToken EXCEPT !.LOG_LEVEL = v] : v \in {blank, low, debug}}

Environments == {Unset} \cup TokenSources \cup Settings

\* Identifiers at each side of each check: no printable character, at the limit
\* with and without white space, above it, a control character inside or around.
Identifiers ==
    {[core |-> 0, pad |-> 1, control |-> "none"],
     [core |-> 1, pad |-> 1, control |-> "none"],
     [core |-> 2, pad |-> 0, control |-> "none"],
     [core |-> 2, pad |-> 1, control |-> "none"],
     [core |-> 2, pad |-> 0, control |-> "core"],
     [core |-> 1, pad |-> 1, control |-> "pad"]}
\* A body that passes, and those with one check, or two of its checks, failing.
Sound == [json |-> "object", device |-> [core |-> 2, pad |-> 0, control |-> "none"],
          name |-> [core |-> 1, pad |-> 1, control |-> "none"], cursor |-> 1, blobs |-> <<1>>]

Bodies ==
    {[Sound EXCEPT !.json = j, !.cursor = c] :
        j \in {"object", "malformed", "trailing", "tooLarge"}, c \in {-1, 0, 1}}
    \cup {[Sound EXCEPT !.device = d, !.name = n] : d, n \in Identifiers}
    \cup {[Sound EXCEPT !.cursor = c, !.blobs = b] :
            c \in {-1, 1}, b \in UNION {[1..n -> {0, 1, 2}] : n \in 0..3}}

\* Every token with every version; every body with the token that most
\* environments have, and a few of them without it.
Several == {Sound, [Sound EXCEPT !.json = "malformed"], [Sound EXCEPT !.json = "tooLarge"],
            [Sound EXCEPT !.cursor = -1]}
Requested ==
    {r \in Requests : r.presented \in Tokens \cup {None}
                      /\ (r.route = "sync" =>
                            \/ r.body \in Several
                            \/ r.presented = t1 /\ r.version = "current")
                      /\ (r.route = "remove" =>
                            \/ r.device = Sound.name
                            \/ r.presented = t1 /\ r.version = "current")}
=============================================================================
