------------------------------ MODULE Patterns ------------------------------
(***************************************************************************)
(* Whether an exclusion leaves a path out: Borg's patterns, evaluated by   *)
(* the daemon itself for the backups it makes without Borg (pattern.rs).   *)
(*                                                                         *)
(* A pattern is a sequence of pieces, a path a sequence of characters      *)
(* relative to the root.  The loop of glob_match is one step a turn: t and *)
(* p count what has been matched of the text and of the tokens, and star   *)
(* is the last wildcard passed and the text it was passed at.              *)
(***************************************************************************)
EXTENDS Naturals, SequencesExt

CONSTANTS
  Letters,        \* what names are made of
  MaxPieces,      \* pieces of a pattern
  MaxText,        \* characters of a path
  Circumstances   \* "spanning": shell patterns in which ** occurs

Chars == Letters \cup {"/"}
Wildcards == {"?", "*", "other than"}   \* the last a class: anything but Beside
Beside == CHOOSE c \in Letters : TRUE
Pieces == Chars \cup Wildcards \cup {"**/", "**"}
Styles == {"fm", "sh", "pp", "pf", "re"}

VARIABLES
  style, pattern,     \* what the person wrote
  text,               \* the path
  t, p, star,         \* where the matcher is
  verdict             \* "matching" until it says
vars == <<style, pattern, text, t, p, star, verdict>>

None == <<0, 0>>
IsPath(s) ==
  /\ s # <<>> /\ s[1] # "/" /\ Last(s) # "/"
  /\ \A i \in 1 .. Len(s) - 1 : ~ (s[i] = "/" /\ s[i + 1] = "/")

\* tokenise: only the shell style knows ** as a token of its own.
Token(piece) ==
  CASE style = "sh" /\ piece \in {"**/", "**"} -> <<"AnyDirs">>
    [] piece = "**/" -> <<"*", "*", "/">>
    [] piece = "**" -> <<"*", "*">>
    [] OTHER -> <<piece>>
tokens == FlattenSeq([i \in DOMAIN pattern |-> Token(pattern[i])])
crosses == style = "fm"
TokenAt(i) == IF i < Len(tokens) THEN tokens[i + 1] ELSE "none"

TypeOK ==
  /\ style \in Styles /\ pattern \in BoundedSeq(Pieces, MaxPieces)
  /\ text \in BoundedSeq(Chars, MaxText) /\ IsPath(text)
  /\ t \in 0 .. Len(text) /\ p \in 0 .. Len(tokens)
  /\ star \in {None} \cup ((1 .. Len(tokens)) \X (0 .. Len(text)))
  /\ verdict \in {"matching", "yes", "no"}

Init ==
  /\ style \in Styles
  /\ pattern \in BoundedSeq(Pieces, MaxPieces) \ {<<>>}
  /\ pattern[1] # "/" /\ Last(pattern) # "**/"  \* relative, and ends in a name
  /\ style \in {"pp", "pf"} => \A i \in DOMAIN pattern : pattern[i] \in Chars
  /\ style = "sh" /\ "spanning" \notin Circumstances =>
       \A i \in DOMAIN pattern : pattern[i] \notin {"**/", "**"}
  /\ text \in {s \in BoundedSeq(Chars, MaxText) : IsPath(s)}
  /\ t = 0 /\ p = 0 /\ star = None /\ verdict = "matching"

-----------------------------------------------------------------------------
\* PathPrefix and PathFull; a regular expression is not compiled and matches
\* nothing.
Trimmed == IF Last(pattern) = "/" THEN Front(pattern) ELSE pattern
MatchesPath ==
  \/ style = "pp" /\ (text = Trimmed \/ IsPrefix(Append(Trimmed, "/"), text))
  \/ style = "pf" /\ text = pattern
Compares ==
  /\ style \notin {"fm", "sh"}
  /\ verdict' = IF MatchesPath THEN "yes" ELSE "no"
  /\ UNCHANGED <<t, p, star>>

\* What a token takes of a character, wildcards apart.
Takes(token, c) ==
  \/ token = c
  \/ token \in {"?", "other than"} /\ (crosses \/ c # "/")
       /\ (token = "other than" => c # Beside)


\* One turn of the loop.
TakesOne ==
  /\ t < Len(text) /\ Takes(TokenAt(p), text[t + 1])
  /\ t' = t + 1 /\ p' = p + 1
  /\ UNCHANGED <<star, verdict>>

MeetsStar ==
  /\ t < Len(text) /\ TokenAt(p) \in {"*", "AnyDirs"}
  /\ star' = <<p + 1, t>> /\ p' = p + 1
  /\ UNCHANGED <<t, verdict>>

\* The wildcard last passed takes one more character, if it may.
MaySwallow(token, c) == token = "AnyDirs" \/ crosses \/ c # "/"
GoesBack ==
  /\ t < Len(text)
  /\ TokenAt(p) \notin {"*", "AnyDirs"} /\ ~ Takes(TokenAt(p), text[t + 1])
  /\ IF star # None /\ MaySwallow(tokens[star[1]], text[star[2] + 1])
     THEN /\ star' = <<star[1], star[2] + 1>>
          /\ p' = star[1] /\ t' = star[2] + 1
          /\ UNCHANGED verdict
     ELSE verdict' = "no" /\ UNCHANGED <<t, p, star>>

\* At the end of the text, what is left of the tokens may be wildcards.
Ends ==
  /\ t = Len(text)
  /\ verdict' = IF \A i \in p + 1 .. Len(tokens) : tokens[i] \in {"*", "AnyDirs"}
                THEN "yes" ELSE "no"
  /\ UNCHANGED <<t, p, star>>

Next ==
  /\ verdict = "matching" /\ UNCHANGED <<style, pattern, text>>
  /\ \/ Compares
     \/ style \in {"fm", "sh"} /\ (TakesOne \/ MeetsStar \/ GoesBack \/ Ends)
Spec == Init /\ [][Next]_vars

-----------------------------------------------------------------------------
\* What the pieces of a pattern mean (pattern.rs:22-28): * and ? stop at a slash
\* in the shell style only, **/ there is any number of whole levels, and ** at
\* the end of it anything at all.
Means[i \in 1 .. MaxPieces + 1, j \in 1 .. MaxText + 1] ==
  IF i > Len(pattern) THEN j > Len(text)
  ELSE
    LET piece == pattern[i]
        Spans(c) == c # "/" \/ crosses
    IN CASE piece = "*" ->
              Means[i + 1, j] \/ (j <= Len(text) /\ Spans(text[j]) /\ Means[i, j + 1])
         [] piece = "**" -> \E k \in j .. Len(text) + 1 : Means[i + 1, k]
         [] piece = "**/" ->
              \/ ~ crosses /\ Means[i + 1, j]
              \/ \E k \in j .. Len(text) : text[k] = "/" /\ Means[i + 1, k + 1]
         [] piece \in {"?", "other than"} ->
              /\ j <= Len(text) /\ Spans(text[j])
              /\ piece = "other than" => text[j] # Beside
              /\ Means[i + 1, j + 1]
         [] OTHER -> j <= Len(text) /\ text[j] = piece /\ Means[i + 1, j + 1]

\* What is before a slash of the path, and the path itself.
Within(place) == \E n \in 1 .. Len(text) :
  SubSeq(text, 1, n) = place /\ (n = Len(text) \/ text[n + 1] = "/")
LeavesOut ==
  CASE style \in {"fm", "sh"} -> Means[1, 1]
    [] style = "pp" -> Within(Trimmed)
    [] style = "pf" -> text = pattern
    [] style = "re" -> FALSE

\* The matcher, which keeps only the last wildcard to go back to, says of every
\* pattern and path what the pattern means.
SaysWhatIsMeant == verdict # "matching" => (verdict = "yes" <=> LeavesOut)
PatternSafety == TypeOK /\ SaysWhatIsMeant

\* Nothing is left out of a backup that the pattern does not name (pattern.rs:29-35:
\* failing to exclude is recoverable, "failing the other way would mean silently
\* not protecting files").
LeavesOutNoMore == verdict = "yes" => LeavesOut
=============================================================================
