------------------------------ MODULE MCPublish ------------------------------
(* Publish for TLC: a tree in which README.md and index.md meet, with a type  *)
(* directory, an excluded one, an index.md that becomes a directory, a root   *)
(* README.md that collides with a page when docs_dir moves, and a path no     *)
(* table may have as a key.                                                   *)
EXTENDS Publish

CONSTANT Spellings       \* of docs_dir: TRUE plain, FALSE "docs/" or "./docs"

TheFiles ==
  {<<"docs", "index.md">>, <<"docs", "guide", "README.md">>, <<"docs", "guide", "index.md">>,
   <<"docs", "guide", "index.md", "README.md">>,
   <<"docs", "guide", "rfc", "0001-a.md">>, <<"docs", "guide", "rfc", "notes.md">>,
   <<"docs", "..", "x.md">>, <<"README.md">>, <<"CHANGELOG.md">>}

TheMarkdown == {"index.md", "README.md", "0001-a.md", "notes.md", "x.md", "CHANGELOG.md"}

TheFrontmatter == {<<"docs", "guide", "rfc", "0001-a.md">>, <<"docs", "guide", "rfc", "notes.md">>}

Base0 == [docsDir |-> <<"docs">>, plain |-> TRUE, typeDirs |-> {<<"docs", "guide", "rfc">>},
          api |-> FALSE, landing |-> None, exclude |-> {}, additional |-> {}, changelog |-> None]

TheConfigs ==
  LET root == <<"README.md">> IN
  {[c EXCEPT !.plain = s] : s \in Spellings, c \in
    {Base0,
     [Base0 EXCEPT !.api = TRUE, !.landing = <<"docs", "index.md">>, !.additional = {root},
                   !.changelog = <<"CHANGELOG.md">>],
     [Base0 EXCEPT !.api = TRUE, !.landing = root, !.exclude = {<<"guide">>}],
     [Base0 EXCEPT !.api = TRUE, !.landing = <<"docs", "guide", "index.md">>,
                   !.docsDir = <<"docs", "guide">>, !.additional = {root}]}}
==============================================================================
