------------------------------ MODULE MCFileOps ------------------------------
EXTENDS FileOps
CONSTANTS a, b, s1, s2

Write(p, s, h) == [op |-> "write", to |-> p, stamp |-> s, hash |-> h, force |-> FALSE]
Move(p, q, f)  == [op |-> "move", from |-> p, to |-> q, force |-> f]
Mkdir(p, f)    == [op |-> "mkdir", to |-> p, parents |-> f]
Delete(p)      == [op |-> "delete", to |-> p]

\* Operations that meet at <<a>>, and in a directory b.
MCOperations ==
  {Write(<<a>>, s1, Old), Move(<<b>>, <<a>>, FALSE), Mkdir(<<b, a>>, TRUE), Delete(<<b>>)}
Symmetry == Permutations(Brokered)
=============================================================================
