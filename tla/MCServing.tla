------------------------------ MODULE MCServing ------------------------------
(* Serving for TLC: a repository whose only document changes its type and its *)
(* content, while the alias "arch" moves with it or is claimed by two types,  *)
(* and a second repository that comes and goes.                               *)
EXTENDS Serving

CONSTANTS n1, n2

TheSegments == {"ADR", "Arch", "rfc"}
TheFold == [s \in TheSegments \cup {"adr", "arch", "RFC"} |->
              CASE s \in {"ADR", "adr"} -> "adr" [] s \in {"Arch", "arch"} -> "arch"
                [] s \in {"RFC", "rfc"} -> "rfc"]

TypeRow(n, p, as) == [name |-> n, prefix |-> p, aliases |-> as]
Content(types, type, rev, page, home, log) ==
  [types |-> types, docs |-> [d \in {"0001"} |-> [type |-> type, rev |-> rev]],
   pages |-> [p \in {"guide"} |-> page], index |-> home, changelog |-> log]

TheContents ==
  [n \in {n1, n2} |->
    IF n = n1
    THEN {Content({TypeRow("adr", "ADR", {"arch"})}, "adr", 1, 1, "text", TRUE),
          Content({TypeRow("rfc", "RFC", {"arch"})}, "rfc", 2, 2, "empty", FALSE),
          Content({TypeRow("adr", "ADR", {"arch"}), TypeRow("rfc", "RFC", {"arch"})},
                  "adr", 2, Absent, "no file", FALSE)}
    ELSE {[types |-> {}, docs |-> [d \in {"0001"} |-> Absent],
           pages |-> [p \in {"guide"} |-> 3], index |-> "text", changelog |-> FALSE]}]
==============================================================================
