---------------------------- MODULE MCPrefixCache ----------------------------
EXTENDS PrefixCache, TLC

Text(t) == [token |-> t, image |-> NoImage]
Seen(t) == [token |-> t, image |-> "cat"]
Ask(s, t) == [units |-> s, tail |-> t]

\* A text of two blocks, and an image with the first block of the same text.
MCPrompts ==
  {Ask(<<Text("a"), Text("b")>>, FALSE), Ask(<<Seen("a")>>, TRUE)}

MCHash == {<<Text("a")>>, <<Seen("a")>>, <<Text("a"), Text("b")>>}

Symmetry == Permutations(Request)
=============================================================================
