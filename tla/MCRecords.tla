----------------------------- MODULE MCRecords -----------------------------
EXTENDS Exports, TLC

Scalar(s) == [list |-> FALSE, parts |-> <<s>>]
Group(ss) == [list |-> TRUE, parts |-> ss]
Plain(s)  == [list |-> FALSE, items |-> <<Scalar(s)>>]
Listed(s) == [list |-> TRUE, items |-> s]

\* Every kind of value a client can send: a text, the empty text, the number 0,
\* lists with empty and missing items, and both forms of nesting.
MCInputs ==
  LET t == ZeroText IN
  {Plain(t), Plain(EmptyText), Plain(Zero), Listed(<<>>),
   Listed(<<Scalar(t), Scalar(EmptyText)>>),
   Listed(<<Group(<<t, EmptyText>>)>>),
   Listed(<<Group(<<>>), Group(<<t, Zero>>)>>)}
=============================================================================
