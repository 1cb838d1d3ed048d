----------------------------- MODULE PatchText -----------------------------
(***************************************************************************)
(* How rebase_pve_528_patch.py reads text: the hunks of the patch and the  *)
(* runs of lines they add, and sd.c, where it looks for a function by      *)
(* counting braces outside of comments and literals, and inserts a piece   *)
(* at an anchor in the body.  A piece of text that a regular expression    *)
(* matches as a whole is one character here, and blanks are left out.      *)
(***************************************************************************)
EXTENDS Naturals, FiniteSets, Sequences, SequencesExt

CONSTANTS
  Patches,   \* patches, each a sequence of files [wanted, hunks]
  Sources,   \* texts of sd.c, each a sequence of tokens of C
  MinHunks   \* how many hunks of sd.c the script wants, 13 in the code

\* "signature" is what the pattern of the function matches; "guard", "label"
\* and "destroy" are what is looked for in its body; "call" and "cleanup" the
\* markers of what is inserted.
Chars == {"{", "}", "quote", "tick", "backslash", "/", "*", "newline", ";", "x",
          "signature", "guard", "label", "destroy", "call", "cleanup"}
Lines == {"--- a/sd.c", "--- a/other", "+++", "@@", "+", "-", " "}
Modes == {"code", "line comment", "block comment", "string", "char"}
Jobs == {"queue depth call", "init cleanup"}

\* C text as tokens.  Comments and literals are made of the characters that
\* are no piece; a character is escaped behind a backslash that is not.  A
\* line comment that a backslash continues on the next line is left out.
Plain == {"{", "}", "quote", "tick", "backslash", "/", "*", "newline", ";", "x"}

LineComment ==
  {t \in Seq(Plain) :
     /\ Len(t) >= 3 /\ t[1] = "/" /\ t[2] = "/" /\ t[Len(t) - 1] # "backslash"
     /\ \A k \in 3..Len(t) : t[k] = "newline" <=> k = Len(t)}

BlockComment ==
  {t \in Seq(Plain) :
     /\ Len(t) >= 4 /\ t[1] = "/" /\ t[2] = "*"
     /\ \A k \in 3..(Len(t) - 1) : (t[k] = "*" /\ t[k + 1] = "/") <=> k = Len(t) - 1}

Escaped(E, t) ==
  /\ E \subseteq 3..Len(t)
  /\ \A k \in 3..Len(t) : k \in E <=> (k - 1 \notin E /\ t[k - 1] = "backslash")

Literal(closing) ==
  {t \in Seq(Plain) :
     /\ Len(t) >= 2 /\ t[1] = closing
     /\ \E E \in SUBSET (3..Len(t)) :
          /\ Escaped(E, t)
          /\ \A k \in 2..Len(t) : (t[k] = closing /\ k \notin E) <=> k = Len(t)}

Token ==
  {<<c>> : c \in Chars \ {"quote", "tick", "/", "signature"}}
    \cup {<<"signature", ";">>, <<"signature", "{">>, <<"/", "x">>}
    \cup LineComment \cup BlockComment \cup Literal("quote") \cup Literal("tick")

ASSUME TextAssumption ==
  /\ MinHunks \in Nat
  /\ Patches \subseteq Seq([wanted : BOOLEAN, hunks : Seq(Seq({"+", "-", " "}))])
  /\ Sources \subseteq Seq(Token)

VARIABLES
  patch,   \* the files of the patch
  hunks,   \* what was read of it
  tokens,  \* auxiliary: sd.c as tokens
  text,    \* sd.c
  job,     \* insert_queue_depth_call or ensure_init_cleanup
  start,   \* of the function
  i,       \* the scanner's position
  depth, mode, escape,
  pc

scanner == <<start, i, depth, mode, escape>>
vars == <<patch, hunks, tokens, text, job, scanner, pc>>

-----------------------------------------------------------------------------
(***************************************************************************)
(* The patch.                                                              *)
(***************************************************************************)
Rendered(p) ==
  FlattenSeq([n \in DOMAIN p |->
    <<IF p[n].wanted THEN "--- a/sd.c" ELSE "--- a/other", "+++">>
      \o FlattenSeq([k \in DOMAIN p[n].hunks |-> <<"@@">> \o p[n].hunks[k]])])

\* Bug: the end of a file does not end its last hunk.
in_file_line_runs_on(s, line) ==
  IF line \in {"--- a/sd.c", "--- a/other"}
    THEN [s EXCEPT !.in_file = line = "--- a/sd.c"]
  ELSE IF line = "@@" /\ s.in_file
    THEN [s EXCEPT !.hunks = Append(@, <<>>), !.in_hunk = TRUE]
  ELSE IF s.in_hunk
    THEN [s EXCEPT !.hunks[Len(s.hunks)] = Append(@, line)]
  ELSE s

in_file_line(s, line) ==
  IF line \in {"--- a/sd.c", "--- a/other"}
    THEN [s EXCEPT !.in_file = line = "--- a/sd.c", !.in_hunk = FALSE]
  ELSE IF line = "@@" /\ s.in_file
    THEN [s EXCEPT !.hunks = Append(@, <<>>), !.in_hunk = TRUE]
  ELSE IF s.in_hunk
    THEN [s EXCEPT !.hunks[Len(s.hunks)] = Append(@, line)]
  ELSE s

parse_file_hunks(lines) ==
  LET s[k \in 0..Len(lines)] ==
        IF k = 0 THEN [in_file |-> FALSE, in_hunk |-> FALSE, hunks |-> <<>>]
        ELSE in_file_line(s[k - 1], lines[k])
  IN  s[Len(lines)].hunks

\* The runs, each by the number of its lines.
addition_line(s, line) ==
  IF line = "+" THEN [s EXCEPT !.current = @ + 1]
  ELSE IF s.current > 0 THEN [runs |-> Append(s.runs, s.current), current |-> 0]
  ELSE s

addition_runs(hunk) ==
  LET s[k \in 0..Len(hunk)] == IF k = 0 THEN [runs |-> <<>>, current |-> 0]
                               ELSE addition_line(s[k - 1], hunk[k])
      end == s[Len(hunk)]
  IN  IF end.current > 0 THEN Append(end.runs, end.current) ELSE end.runs

read_patch ==
  LET found == parse_file_hunks(Rendered(patch))
  IN  /\ pc = "read"
      /\ hunks' = found
      /\ pc' = IF Len(found) < MinHunks THEN "died" ELSE "find"
      /\ UNCHANGED <<patch, tokens, text, job, scanner>>

-----------------------------------------------------------------------------
(***************************************************************************)
(* sd.c: find_function_span, a character at a time.                        *)
(***************************************************************************)
CharAt(k) == IF k \in DOMAIN text THEN text[k] ELSE "end"

Definitions ==
  {k \in DOMAIN text : text[k] = "signature" /\ CharAt(k + 1) = "{"}

Marker == IF job = "queue depth call" THEN "call" ELSE "cleanup"

find ==
  /\ pc = "find"
  /\ \/ /\ Contains(text, Marker)
        /\ pc' = "done"
        /\ UNCHANGED scanner
     \/ /\ ~Contains(text, Marker)
        /\ Cardinality(Definitions) # 1
        /\ pc' = "died"
        /\ UNCHANGED scanner
     \/ /\ ~Contains(text, Marker)
        /\ \E k \in Definitions :
             /\ Definitions = {k}
             /\ start' = k /\ i' = k + 1
        /\ depth' = 0 /\ mode' = "code" /\ escape' = FALSE
        /\ pc' = "scan"
  /\ UNCHANGED <<patch, hunks, tokens, text, job>>

Scan(steps, becomes) ==
  /\ i' = i + steps
  /\ mode' = becomes
  /\ pc' = "scan"

\* Bug: the character after the end is skipped for both kinds.
in_comment_skips ==
  LET ends == \/ mode = "line comment" /\ text[i] = "newline"
              \/ mode = "block comment" /\ text[i] = "*" /\ CharAt(i + 1) = "/"
  IN  /\ mode \in {"line comment", "block comment"}
      /\ Scan(IF ends THEN 2 ELSE 1, IF ends THEN "code" ELSE mode)
      /\ UNCHANGED <<depth, escape>>

in_comment ==
  LET ends == \/ mode = "line comment" /\ text[i] = "newline"
              \/ mode = "block comment" /\ text[i] = "*" /\ CharAt(i + 1) = "/"
  IN  /\ mode \in {"line comment", "block comment"}
      /\ Scan(IF ends /\ mode = "block comment" THEN 2 ELSE 1,
              IF ends THEN "code" ELSE mode)
      /\ UNCHANGED <<depth, escape>>

\* Bug: a backslash always escapes, also one that is escaped itself.
in_literal_always_escapes ==
  LET closing == IF mode = "string" THEN "quote" ELSE "tick"
  IN  /\ mode \in {"string", "char"}
      /\ escape' = (text[i] = "backslash")
      /\ Scan(1, IF ~escape /\ text[i] = closing THEN "code" ELSE mode)
      /\ UNCHANGED depth

in_literal ==
  LET closing == IF mode = "string" THEN "quote" ELSE "tick"
  IN  /\ mode \in {"string", "char"}
      /\ escape' = (~escape /\ text[i] = "backslash")
      /\ Scan(1, IF ~escape /\ text[i] = closing THEN "code" ELSE mode)
      /\ UNCHANGED depth

opens_comment ==
  /\ mode = "code" /\ text[i] = "/" /\ CharAt(i + 1) \in {"/", "*"}
  /\ Scan(2, IF CharAt(i + 1) = "/" THEN "line comment" ELSE "block comment")
  /\ UNCHANGED <<depth, escape>>

in_code ==
  /\ mode = "code"
  /\ ~(text[i] = "/" /\ CharAt(i + 1) \in {"/", "*"})
  /\ depth' = CASE text[i] = "{" -> depth + 1
                [] text[i] = "}" -> depth - 1
                [] OTHER -> depth
  /\ IF text[i] = "}" /\ depth' = 0
       THEN pc' = "insert" /\ UNCHANGED <<i, mode>>
       ELSE Scan(1, CASE text[i] = "quote" -> "string"
                      [] text[i] = "tick" -> "char"
                      [] OTHER -> "code")
  /\ UNCHANGED escape

unterminated == i > Len(text) /\ pc' = "died" /\ UNCHANGED <<i, depth, mode, escape>>

find_function_span ==
  /\ pc = "scan"
  /\ \/ unterminated
     \/ i <= Len(text) /\ (in_comment \/ in_literal \/ opens_comment \/ in_code)
  /\ UNCHANGED <<patch, hunks, tokens, text, job, start>>

-----------------------------------------------------------------------------
(***************************************************************************)
(* The insertion.                                                          *)
(***************************************************************************)
FirstFrom(c, from, to) ==
  {k \in from..to : text[k] = c /\ \A j \in from..(k - 1) : text[j] # c}

after_guard == {k + 1 : k \in FirstFrom("guard", start, i)}

before_destroy ==
  UNION {FirstFrom("destroy", k, i) : k \in FirstFrom("label", start, i)}

places == IF job = "queue depth call" THEN after_guard ELSE before_destroy

insert ==
  /\ pc = "insert"
  /\ \/ places = {} /\ pc' = "died" /\ UNCHANGED text
     \/ \E k \in places : text' = InsertAt(text, k, Marker) /\ pc' = "done"
  /\ UNCHANGED <<patch, hunks, tokens, job, scanner>>

Init ==
  /\ \/ patch \in Patches /\ tokens = <<>>
     \/ patch = [n \in {1} |-> [wanted |-> TRUE, hunks |-> [k \in 1..MinHunks |-> <<>>]]]
        /\ tokens \in Sources
  /\ job \in Jobs
  /\ hunks = <<>> /\ text = FlattenSeq(tokens)
  /\ start = 0 /\ i = 0 /\ depth = 0 /\ mode = "code" /\ escape = FALSE
  /\ pc = "read"

Next == read_patch \/ find \/ find_function_span \/ insert

Spec == Init /\ [][Next]_vars
-----------------------------------------------------------------------------
TypeOK ==
  /\ hunks \in Seq(Seq(Lines))
  /\ text \in Seq(Chars)
  /\ start \in 0..Len(text) /\ i \in 0..(Len(text) + 1)
  /\ depth \in Nat /\ mode \in Modes /\ escape \in BOOLEAN
  /\ pc \in {"read", "find", "scan", "insert", "done", "died"}

(***************************************************************************)
(* What is read of the patch is every hunk of sd.c and no line of another  *)
(* file, and a run is as long as the lines added next to each other.       *)
(***************************************************************************)
Added(hunk) == {n \in DOMAIN hunk : hunk[n] = "+"}

\* The lengths of the runs, in order, by where each begins and ends.
Runs(hunk) ==
  LET begins == {n \in Added(hunk) : n - 1 \notin Added(hunk)}
      ends == {n \in Added(hunk) : n + 1 \notin Added(hunk)}
      last(n) == CHOOSE m \in ends : m >= n /\ \A k \in ends : k >= n => k >= m
      nth(k) == CHOOSE n \in begins : Cardinality({m \in begins : m <= n}) = k
  IN  [k \in 1..Cardinality(begins) |-> last(nth(k)) - nth(k) + 1]

HunksRead ==
  pc # "read" =>
    /\ hunks = FlattenSeq([n \in DOMAIN patch |->
                 IF patch[n].wanted THEN patch[n].hunks ELSE <<>>])
    /\ \A n \in DOMAIN hunks : addition_runs(hunks[n]) = Runs(hunks[n])

(***************************************************************************)
(* A piece is inserted in the body of the function and nowhere else, as    *)
(* the tokens tell: braces in comments and literals do not count, nor do   *)
(* an anchor of another function or a forward declaration.  A text that    *)
(* has the marker already stays as it is.                                  *)
(***************************************************************************)
Tokens(t) == {n \in DOMAIN tokens : tokens[n] = t}

Body ==
  LET d == CHOOSE n \in Tokens(<<"signature", "{">>) : TRUE
      open(n) == Cardinality({m \in Tokens(<<"{">>) : d < m /\ m <= n}) + 1
      closes(n) == Cardinality({m \in Tokens(<<"}">>) : d < m /\ m <= n})
      balanced == {n \in (d + 1)..Len(tokens) : open(n) = closes(n)}
  IN  IF balanced = {} THEN {}
      ELSE d..(CHOOSE n \in balanced : \A m \in balanced : n <= m)

First(t, within) ==
  {n \in Tokens(t) \cap within : \A m \in Tokens(t) \cap within : n <= m}

Meant ==
  IF job = "queue depth call" THEN {n + 1 : n \in First(<<"guard">>, Body)}
  ELSE UNION {First(<<"destroy">>, {m \in Body : m > n}) : n \in First(<<"label">>, Body)}

InsertedAsMeant ==
  LET placed == IF Cardinality(Tokens(<<"signature", "{">>)) = 1 THEN Meant ELSE {}
      marked == Tokens(<<Marker>>) # {}
  IN  tokens # <<>> =>
        /\ marked => pc # "died" /\ text = FlattenSeq(tokens)
        /\ pc = "done" /\ ~marked =>
             \E n \in placed : text = FlattenSeq(InsertAt(tokens, n, <<Marker>>))
        /\ pc = "died" => placed = {} /\ text = FlattenSeq(tokens)
=============================================================================
