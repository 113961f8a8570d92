-------------------------- MODULE MCKnowledgeStore --------------------------
(* An instance of KnowledgeStore: two names alike, one of which also stands *)
(* in content as a header line.                                            *)
EXTENDS KnowledgeStore, TLC

CONSTANTS c1, c2, cust, customs, n1, n2

\* "CUST file" and "CUSTOMS file": the second starts with the word that begins the
\* first.
MCStarts == {<<n, n>> : n \in Names} \cup {<<customs, cust>>}

\* A header line that is escaped when it replaces a topic, one that is not, and
\* one that is appended.
Line(n)    == [note |-> n, header |-> cust, bare |-> FALSE]
MCSaved    == {Line(n1), [Line(n1) EXCEPT !.bare = TRUE]}
MCAppended == {Line(n2), [Line(n2) EXCEPT !.header = None]}

\* One server saves and deletes; the other adds to topics and reads.
MCOps == c1 :> {"save", "delete"} @@ c2 :> {"append", "get"}
=============================================================================
