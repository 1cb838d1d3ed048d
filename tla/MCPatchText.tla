---------------------------- MODULE MCPatchText ----------------------------
(***************************************************************************)
(* Instances of PatchText for TLC.                                         *)
(***************************************************************************)
EXTENDS PatchText

CONSTANT MaxBody  \* bound: tokens after the signature

Hunk == UNION {[1..n -> {"+", " "}] : n \in 1..3}
File == [wanted : BOOLEAN, hunks : UNION {[1..n -> Hunk] : n \in 0..2}]
SmallPatches ==
  {<<f, g>> : f \in File, g \in {h \in File : Len(h.hunks) < 2}}

\* Literals and comments hold braces and the characters that end another kind.
Literals == {<<"quote", "backslash", "quote", "}", "quote">>,
             <<"quote", "backslash", "backslash", "quote">>,
             <<"tick", "{", "tick">>, <<"tick", "quote", "tick">>}
Comments == {<<"/", "/", "{", "tick", "newline">>,
             <<"/", "*", "/", "}", "quote", "*", "/">>}
Pieces == Literals \cup Comments
            \cup {<<"{">>, <<"}">>, <<"/", "x">>, <<"guard">>, <<"label">>, <<"destroy">>}

\* What comes before the function: nothing, its declaration, the anchors in
\* another function, another definition, or the call
\* that is to be inserted.
Before == {<<>>, <<<<"signature", ";">>>>,
           <<<<"guard">>, <<"label">>, <<"destroy">>>>,
           <<<<"signature", "{">>, <<"}">>>>, <<<<"call">>>>}

SmallSources ==
  {before \o <<<<"signature", "{">>>> \o body :
     before \in Before, body \in UNION {[1..n -> Pieces] : n \in 1..MaxBody}}
=============================================================================
