---------------------------- MODULE FileOps_proofs -----------------------------
(***************************************************************************)
(* Proofs about the file operations (FileOps): the inductive invariant     *)
(* TreeInv, and with it that a write or a move that reports success met    *)
(* what its caller expected, unless a client outside the broker, or one    *)
(* whose session was lost, took part.                                      *)
(***************************************************************************)
EXTENDS FileOps, SequenceTheorems, TLAPS

Typed(t) == t \in [Dirs -> [Names \cup Clients -> Nodes]]

(***************************************************************************)
(* Paths.                                                                  *)
(***************************************************************************)
(* A path is one name, or two.                                             *)
LEMMA PathFacts ==
  ASSUME NEW p \in Paths
  PROVE  /\ Len(p) \in {1, 2} /\ p[1] \in Names /\ Last(p) \in Names
         /\ <<p[1]>> \in Paths /\ Last(<<p[1]>>) = p[1] /\ Len(<<p[1]>>) = 1
<1>1. ASSUME NEW n \in Names PROVE Len(<<n>>) = 1 /\ Last(<<n>>) = n
  BY DEF Last
<1>2. ASSUME NEW n \in Names, NEW m \in Names
      PROVE  Len(<<n, m>>) = 2 /\ <<n, m>>[1] = n /\ Last(<<n, m>>) = m
  BY DEF Last
<1>3. CASE p \in {<<n>> : n \in Names}
  BY <1>1, <1>3 DEF Paths
<1>4. CASE p \in {<<n, m>> : n, m \in Names}
  BY <1>1, <1>2, <1>4 DEF Paths
<1> QED BY <1>3, <1>4 DEF Paths

(* The temporary file of a write lies beside its target, under the client's *)
(* own name.                                                               *)
LEMMA TempFacts ==
  ASSUME NEW p \in Paths, NEW c, NEW t
  PROVE  /\ Last(Append(Front(p), c)) = c
         /\ DirOf(t, Append(Front(p), c)) = DirOf(t, p)
<1> DEFINE S == Names \cup {c}
           f == Front(p)
           q == Append(f, c)
<1>1. p \in Seq(S) /\ Len(p) \in {1, 2}
  <2>1. ASSUME NEW n \in Names PROVE <<n>> \in Seq(S) /\ Len(<<n>>) = 1
    OBVIOUS
  <2>2. ASSUME NEW n \in Names, NEW m \in Names
        PROVE  <<n, m>> \in Seq(S) /\ Len(<<n, m>>) = 2
    OBVIOUS
  <2>3. CASE p \in {<<n>> : n \in Names}
    BY <2>1, <2>3
  <2>4. CASE p \in {<<n, m>> : n, m \in Names}
    <3>1. PICK n \in Names, m \in Names : p = <<n, m>>
      BY <2>4
    <3> QED BY <2>2, <3>1
  <2> QED BY <2>3, <2>4 DEF Paths
<1>2. f \in Seq(S) /\ Len(f) = Len(p) - 1 /\ (Len(p) = 2 => f[1] = p[1])
  <2>1. \A i \in 1..Len(p) - 1 : p[i] \in S
    BY <1>1
  <2>2. /\ SubSeq(p, 1, Len(p) - 1) \in Seq(S)
        /\ Len(SubSeq(p, 1, Len(p) - 1)) =
             IF 1 <= Len(p) - 1 THEN Len(p) - 1 - 1 + 1 ELSE 0
        /\ \A i \in 1..Len(p) - 1 - 1 + 1 : SubSeq(p, 1, Len(p) - 1)[i] = p[1 + i - 1]
    BY <1>1, <2>1, SubSeqProperties
  <2>3. Front(p) = SubSeq(p, 1, Len(p) - 1)
    BY DEF Front
  <2> HIDE DEF f
  <2>4. f = SubSeq(p, 1, Len(p) - 1)
    BY <2>3 DEF f
  <2>5. CASE Len(p) = 1
    BY <2>2, <2>4, <2>5
  <2>6. CASE Len(p) = 2
    BY <2>2, <2>4, <2>6
  <2> QED BY <1>1, <2>5, <2>6
<1> HIDE DEF f
<1>3. /\ q \in Seq(S) /\ Len(q) = Len(f) + 1 /\ q[Len(f) + 1] = c
      /\ \A i \in 1..Len(f) : q[i] = f[i]
  BY <1>2, AppendProperties
<1> HIDE DEF q
<1>4. Len(q) = Len(p) /\ Last(q) = c /\ (Len(p) = 2 => q[1] = p[1])
  BY <1>1, <1>2, <1>3 DEF Last
<1>5. DirOf(t, q) = DirOf(t, p)
  BY <1>1, <1>4 DEF DirOf
<1> QED BY <1>4, <1>5 DEF q, f

(* The directory of a path is the root directory, or one that lies there.  *)
LEMMA DirOfFacts ==
  ASSUME FileOpsAssumption, NEW p \in Paths
  PROVE  /\ DirOf(tree, p) \in Dirs \cup {Absent}
         /\ DirOf(tree, p) \in Subs => Attached(DirOf(tree, p))
         /\ Root # Absent /\ Absent \notin Subs
BY PathFacts DEF FileOpsAssumption, DirOf, Dirs, Attached

(* Where the names of a directory are the same, so is every path.          *)
LEMMA SameNames ==
  ASSUME \A d \in Dirs : \A n \in Names : tree'[d][n] = tree[d][n],
         FileOpsAssumption, NEW p \in Paths
  PROVE  DirOf(tree', p) = DirOf(tree, p) /\ At(tree', p) = At(tree, p)
<1>1. DirOf(tree', p) = DirOf(tree, p)
  BY PathFacts DEF DirOf, Dirs
<1>2. DirOf(tree, p) # Absent => tree'[DirOf(tree, p)][Last(p)] = tree[DirOf(tree, p)][Last(p)]
  BY DirOfFacts, PathFacts
<1> QED BY <1>1, <1>2 DEF At

(* A change at a path moves no directory on the way to it.                 *)
LEMMA SameDir ==
  ASSUME FileOpsAssumption, NEW p \in Paths, DirOf(tree, p) # Absent,
         \A d \in Dirs : \A n \in Names :
           d # DirOf(tree, p) \/ n # Last(p) => tree'[d][n] = tree[d][n]
  PROVE  DirOf(tree', p) = DirOf(tree, p)
<1>1. CASE Len(p) = 1
  BY <1>1 DEF DirOf
<1>2. CASE Len(p) # 1
  <2>1. DirOf(tree, p) = tree[Root][p[1]] /\ DirOf(tree, p) \in Subs
    BY <1>2 DEF DirOf
  <2>2. Root # DirOf(tree, p)
    BY <2>1 DEF FileOpsAssumption
  <2>3. tree'[Root][p[1]] = tree[Root][p[1]]
    BY <2>2, PathFacts DEF Dirs
  <2> QED BY <1>2, <2>1, <2>3 DEF DirOf
<1> QED BY <1>1, <1>2

(***************************************************************************)
(* The shape of the tree.                                                  *)
(***************************************************************************)
(* A request that changes one entry keeps the shape of the tree: an entry  *)
(* that goes is no directory with anything in it, and a directory that     *)
(* comes was nowhere.                                                      *)
LEMMA PutKeepsShape ==
  ASSUME FileOpsAssumption, TreeShape, NEW D \in Dirs,
         NEW k \in Names \cup Clients, NEW node,
         D = Root \/ Attached(D), tree'[D][k] = node,
         \A d \in Dirs : \A n \in Names :
           (d = D /\ n = k) \/ tree'[d][n] = tree[d][n],
         \A d \in Dirs : d # D => tree'[d] = tree[d],
         k \in Names /\ tree[D][k] \in Subs => tree[tree[D][k]] = Empty,
         k \in Names /\ node \in Subs => ~Attached(node)
  PROVE  TreeShape'
<1>2. /\ tree'[D][k] = node
      /\ \A d \in Dirs : \A n \in Names :
           (d = D /\ n = k) \/ tree'[d][n] = tree[d][n]
  OBVIOUS
<1>3. \A d \in Dirs : d # D => tree'[d] = tree[d]
  OBVIOUS
<1>4. Empty' = Empty
  BY DEF Empty
<1>5. ASSUME NEW d \in Subs, ~Attached(d)' PROVE tree'[d] = Empty
  <2>1. \A e \in Dirs : \A n \in Names : tree'[e][n] # d
    BY <1>5 DEF Attached
  <2>2. CASE Attached(d)
    <3>1. PICK e \in Dirs, n \in Names : tree[e][n] = d
      BY <2>2 DEF Attached
    <3>2. e = D /\ n = k
      BY <1>2, <2>1, <3>1
    <3>3. tree[d] = Empty
      BY <1>5, <3>1, <3>2
    <3>4. d # D
      BY <3>1, <3>2, <3>3 DEF Empty, FileOpsAssumption
    <3> QED BY <1>3, <3>3, <3>4 DEF Dirs
  <2>3. CASE ~Attached(d)
    <3>1. d # D
      BY <2>3, <1>5 DEF FileOpsAssumption
    <3> QED BY <1>3, <1>5, <2>3, <3>1 DEF TreeShape, Dirs
  <2> QED BY <2>2, <2>3
<1>6. ASSUME NEW d \in Dirs, NEW e \in Dirs, NEW m \in Names, NEW n \in Names,
             tree'[d][m] \in Subs, tree'[d][m] = tree'[e][n]
      PROVE  d = e /\ m = n
  <2>1. CASE d = D /\ m = k /\ ~(e = D /\ n = k)
    BY <1>2, <1>6, <2>1 DEF Attached
  <2>2. CASE e = D /\ n = k /\ ~(d = D /\ m = k)
    BY <1>2, <1>6, <2>2 DEF Attached
  <2>3. CASE ~(d = D /\ m = k) /\ ~(e = D /\ n = k)
    BY <1>2, <1>6, <2>3 DEF TreeShape
  <2> QED BY <2>1, <2>2, <2>3
<1> QED BY <1>4, <1>5, <1>6 DEF TreeShape

(* So does a rename: what it replaces is a file, or an empty directory that *)
(* it does not put the new one into.                                       *)
LEMMA RenameKeepsShape ==
  ASSUME FileOpsAssumption, Typed(tree), TreeShape,
         NEW D \in Dirs, NEW k \in Names \cup Clients,
         NEW E \in Dirs, NEW l \in Names,
         D = Root \/ Attached(D), E = Root \/ Attached(E),
         tree[D][k] # Absent, E # tree[D][k],
         Typed(tree'), tree'[E][l] = tree[D][k],
         (D = E /\ k = l) \/ tree'[D][k] = Absent,
         \A d \in Dirs : \A n \in Names :
           (d = D /\ n = k) \/ (d = E /\ n = l) \/ tree'[d][n] = tree[d][n],
         \A d \in Dirs : d # D /\ d # E => tree'[d] = tree[d],
         tree[D][k] \in Subs =>
           /\ k \in Names
           /\ tree[E][l] = Absent \/ (tree[E][l] \in Subs /\ tree[tree[E][l]] = Empty),
         tree[D][k] \notin Subs => tree[E][l] \notin Subs
  PROVE  TreeShape'
<1> DEFINE x == tree[D][k]
           old == tree[E][l]
<1>1. x \in Nodes /\ old \in Nodes /\ Absent \notin Subs /\ Root \notin Subs
  BY DEF Typed, FileOpsAssumption, Dirs
<1>3. /\ tree'[E][l] = x /\ ((D = E /\ k = l) \/ tree'[D][k] = Absent)
      /\ \A d \in Dirs : \A n \in Names :
           (d = D /\ n = k) \/ (d = E /\ n = l) \/ tree'[d][n] = tree[d][n]
  OBVIOUS
<1>4. \A d \in Dirs : d # D /\ d # E => tree'[d] = tree[d]
  OBVIOUS
<1>5. Empty' = Empty
  BY DEF Empty
<1>6. ASSUME NEW d \in Subs, d # D, d # E, tree[d] = Empty PROVE tree'[d] = Empty
  BY <1>4, <1>6 DEF Dirs
<1>7. ASSUME NEW d \in Subs, ~Attached(d)' PROVE tree'[d] = Empty
  <2>1. \A e \in Dirs : \A n \in Names : tree'[e][n] # d
    BY <1>7 DEF Attached
  <2>2. d # x
    BY <1>3, <2>1
  <2>3. CASE d = old
    <3>1. tree[d] = Empty
      BY <1>1, <1>7, <2>3
    <3>2. d # E /\ d # D
      BY <1>1, <2>3, <3>1 DEF Empty, FileOpsAssumption, Dirs
    <3> QED BY <1>6, <3>1, <3>2
  <2>4. CASE d # old
    <3>1. \A e \in Dirs : \A n \in Names : tree[e][n] # d
      BY <1>3, <2>1, <2>2, <2>4
    <3>2. ~Attached(d)
      BY <3>1 DEF Attached
    <3>3. d # D /\ d # E /\ tree[d] = Empty
      BY <1>1, <1>7, <3>2 DEF TreeShape
    <3> QED BY <1>6, <3>3
  <2> QED BY <2>3, <2>4
<1>8. ASSUME NEW d \in Dirs, NEW e \in Dirs, NEW m \in Names, NEW n \in Names,
             tree'[d][m] \in Subs, tree'[d][m] = tree'[e][n]
      PROVE  d = e /\ m = n
  <2>1. \A g \in Dirs : \A o \in Names :
          tree'[g][o] = x /\ x \in Subs => g = E /\ o = l
    <3> SUFFICES ASSUME NEW g \in Dirs, NEW o \in Names, tree'[g][o] = x, x \in Subs,
                        ~(g = E /\ o = l)
                 PROVE  FALSE
      OBVIOUS
    <3>1. tree[g][o] = x /\ ~(g = D /\ o = k)
      BY <1>1, <1>3
    <3>2. g = D /\ o = k
      BY <3>1 DEF TreeShape
    <3> QED BY <3>1, <3>2
  <2>2. CASE tree'[d][m] = x
    BY <1>8, <2>1, <2>2
  <2>3. CASE tree'[d][m] # x
    <3>1. tree'[d][m] = tree[d][m] /\ tree'[e][n] = tree[e][n]
      BY <1>1, <1>3, <1>8, <2>3
    <3>2. tree[d][m] \in Subs /\ tree[d][m] = tree[e][n]
      BY <1>8, <3>1
    <3> QED BY <3>2 DEF TreeShape
  <2> QED BY <2>2, <2>3
<1> QED BY <1>5, <1>7, <1>8 DEF TreeShape

(***************************************************************************)
(* What a request does to the tree.                                        *)
(***************************************************************************)
(* The fields of the operations.                                           *)
LEMMA CallFacts ==
  ASSUME FileOpsAssumption, NEW o \in Operations
  PROVE  /\ o.to \in Paths /\ o.op \in {"write", "move", "mkdir", "delete"}
         /\ o.op = "write" => /\ o.stamp \in Stamps \cup {Absent}
                              /\ o.hash \in Clients \cup {Old, Absent}
                              /\ o.force \in BOOLEAN
         /\ o.op = "move" => o.from \in Paths /\ o.force \in BOOLEAN
         /\ o.op = "mkdir" => o.parents \in BOOLEAN
BY DEF FileOpsAssumption, Writes, Moves, Mkdirs, Deletes

(* The steps of the operations, one by one.                                *)
LEMMA StepsOf ==
  /\ Steps["write"] = {"look", "hash", "open", "fill", "cleanup", "restat", "done",
                       "rename", "rename3", "unlink", "again"}
  /\ Steps["move"] = {"look", "look to", "done", "rename", "rename3", "unlink", "again"}
  /\ Steps["mkdir"] = {"look top", "look", "mkdir top", "mkdir", "done"}
  /\ Steps["delete"] = {"look", "list", "remove", "rmdir", "done"}
BY DEF Steps, Renaming

(* A client whose request is pending has called an operation that makes it. *)
LEMMA PendingFacts ==
  ASSUME FileOpsAssumption, NEW c \in Clients, CallInPlace(c),
         NEW m \in Requests, Pending(c, m)
  PROVE  /\ pc[c] # "idle" /\ call[c] \in Operations /\ m \in Steps[call[c].op]
         /\ posix => m \notin Renaming \ {"rename"}
         /\ m \in {"open", "fill", "cleanup"} => call[c].op = "write"
         /\ m \in Renaming => call[c].op \in {"write", "move"}
         /\ m \in {"remove", "rmdir"} => call[c].op = "delete"
         /\ m \in {"mkdir top", "mkdir"} => call[c].op = "mkdir"
<1>1. /\ pc[c] # "idle" /\ call[c] \in Operations /\ m \in Steps[call[c].op]
      /\ posix => m \notin Renaming \ {"rename"}
  BY DEF CallInPlace, Pending, Requests
<1>2. call[c].op \in {"write", "move", "mkdir", "delete"}
  BY <1>1, CallFacts
<1> QED BY <1>1, <1>2, StepsOf DEF Renaming

(* What became of the tree when a request was served: only the entries of   *)
(* its client changed, and those under names as its kind says.             *)
Served(c, m) ==
  /\ Typed(tree') /\ NoTornFile' /\ TreeShape'
  /\ \A x \in Clients \ {c} : \A d \in Dirs : tree'[d][x] = tree[d][x]
  /\ \A d \in Dirs :
       /\ tree'[d][c] = Absent \/ (tree'[d][c] \in Files /\ tree'[d][c].by = c)
       /\ m # "open" /\ tree[d][c] = Absent => tree'[d][c] = Absent
       /\ m \in Renaming \cup {"fill"} /\ tree'[d][c] # Absent => tree'[d][c].whole
       /\ m \in Renaming \ {"unlink"} => tree'[d][c] = Absent
  /\ \A d, e \in Dirs : tree'[d][c] # Absent /\ tree'[e][c] # Absent => d = e
  /\ m \in {"open", "fill", "cleanup"} =>
       \A d \in Dirs : \A n \in Names : tree'[d][n] = tree[d][n]
  /\ m \in Renaming \ {"unlink"} /\ call[c].op = "write" =>
       At(tree', call[c].to) \in Files /\ At(tree', call[c].to).by = c
  /\ m \in {"rename3", "again"} => Target(c) = Absent

(* To open, to fill and to remove a temporary file changes no name.        *)
LEMMA TempServed ==
  ASSUME FileOpsAssumption, TypeOK, NoTornFile, TreeShape, NEW c \in Clients,
         CallInPlace(c), TempInPlace(c),
         NEW m \in {"open", "fill", "cleanup"}, Pending(c, m),
         tree' \in Effects(c, m)
  PROVE  Served(c, m)
<1> DEFINE to == call[c].to
           D  == DirOf(tree, to)
<1>1. /\ m \in Requests /\ m \notin Renaming /\ call[c] \in Operations
      /\ to \in Paths /\ c \notin Names /\ Typed(tree)
  <2>1. m \in Requests /\ m \notin Renaming
    BY DEF Requests, Renaming
  <2>2. call[c] \in Operations
    BY <2>1, PendingFacts
  <2> QED BY <2>1, <2>2, CallFacts DEF TypeOK, Typed, FileOpsAssumption
<1>2. Last(Temp(c)) = c /\ DirOf(tree, Temp(c)) = D
  BY <1>1, TempFacts DEF Temp
<1>3. D # Absent => D \in Dirs /\ (D = Root \/ Attached(D))
  BY <1>1, DirOfFacts DEF Dirs
<1>4. Absent \notin Files
  BY DEF FileOpsAssumption
<1>5. ASSUME NEW node \in Files \cup {Absent}, D # Absent,
             tree' = [tree EXCEPT ![D][c] = node],
             m # "fill", node \in Files => m = "open" /\ node.by = c
      PROVE  Served(c, m)
  <2>1. PICK E \in Dirs : E = D
    BY <1>3, <1>5
  <2>2. /\ E = Root \/ Attached(E)
        /\ tree' = [tree EXCEPT ![E][c] = node]
    BY <1>3, <1>5, <2>1
  <2>3. /\ Typed(tree')
        /\ \A d \in Dirs : \A l \in Names : tree'[d][l] = tree[d][l]
        /\ \A d \in Dirs : \A x \in Clients \ {c} : tree'[d][x] = tree[d][x]
        /\ \A d \in Dirs : tree'[d][c] = IF d = E THEN node ELSE tree[d][c]
        /\ \A d \in Dirs : d # E => tree'[d] = tree[d]
    BY <1>1, <2>2 DEF Typed, Nodes
  <2>4. TreeShape'
    BY <1>1, <2>2, <2>3, PutKeepsShape
  <2>5. NoTornFile'
    BY <2>3 DEF NoTornFile
  <2>6. m = "open" => \A d \in Dirs : tree[d][c] = Absent
    BY DEF TempInPlace
  <2>7. \A d \in Dirs :
          /\ tree'[d][c] = Absent \/ (tree'[d][c] \in Files /\ tree'[d][c].by = c)
          /\ m # "open" /\ tree[d][c] = Absent => tree'[d][c] = Absent
    BY <1>4, <1>5, <2>3, <2>6 DEF TempInPlace
  <2>8. \A d, e \in Dirs : tree'[d][c] # Absent /\ tree'[e][c] # Absent => d = e
    BY <1>4, <1>5, <2>3, <2>6 DEF TempInPlace
  <2> QED BY <1>1, <1>5, <2>3, <2>4, <2>5, <2>7, <2>8 DEF Served
<1>6. CASE m = "open"
  <2>1. tree' \in {Put(Temp(c), [by |-> c, stamp |-> st, whole |-> FALSE]) :
                     st \in {s \in Stamps : D # Absent}}
    BY <1>6 DEF Effects
  <2>2. PICK st \in Stamps :
          /\ D # Absent
          /\ tree' = [tree EXCEPT ![D][c] = [by |-> c, stamp |-> st, whole |-> FALSE]]
    BY <1>2, <2>1 DEF Put
  <2>3. [by |-> c, stamp |-> st, whole |-> FALSE] \in Files
    BY DEF Files
  <2> QED BY <1>5, <1>6, <2>2, <2>3
<1>7. CASE m = "cleanup"
  <2>1. tree' \in RemovedFile(Temp(c))
    BY <1>7 DEF Effects
  <2>2. At(tree, Temp(c)) # Absent /\ tree' = Put(Temp(c), Absent)
    BY <2>1 DEF RemovedFile
  <2>3. D # Absent /\ tree' = [tree EXCEPT ![D][c] = Absent]
    BY <1>2, <2>2 DEF At, Put
  <2> QED BY <1>4, <1>5, <1>7, <2>3
<1>8. CASE m = "fill"
  <2>1. tree' = [d \in Dirs |-> IF tree[d][c] = Absent THEN tree[d]
                                ELSE [tree[d] EXCEPT ![c].whole = TRUE]]
    BY <1>8 DEF Effects
  <2>2. \A d \in Dirs : tree[d][c] = Absent \/ (tree[d][c] \in Files /\ tree[d][c].by = c)
    BY DEF TempInPlace
  <2>3. \A d \in Dirs : tree[d][c] # Absent =>
          LET f == [tree[d][c] EXCEPT !.whole = TRUE] IN
          f \in Files /\ f.by = c /\ f.whole
    BY <2>2 DEF Files
  <2>4. \A d \in Dirs :
          /\ tree[d][c] = Absent => tree'[d] = tree[d]
          /\ tree[d][c] # Absent => tree'[d] = [tree[d] EXCEPT ![c] =
                                      [tree[d][c] EXCEPT !.whole = TRUE]]
    BY <2>1
  <2>5. /\ Typed(tree')
        /\ \A d \in Dirs : tree[d][c] # Absent =>
             tree'[d][c] \in Files /\ tree'[d][c].by = c /\ tree'[d][c].whole
        /\ \A d \in Dirs : \A n \in Names \cup Clients :
             n # c => tree'[d][n] = tree[d][n]
    <3>1. ASSUME NEW d \in Dirs
          PROVE  /\ tree'[d] \in [Names \cup Clients -> Nodes]
                 /\ tree[d][c] # Absent =>
                      tree'[d][c] \in Files /\ tree'[d][c].by = c /\ tree'[d][c].whole
                 /\ \A n \in Names \cup Clients : n # c => tree'[d][n] = tree[d][n]
      <4>1. CASE tree[d][c] = Absent
        BY <1>1, <2>4, <4>1 DEF Typed
      <4>2. CASE tree[d][c] # Absent
        <5> DEFINE f == [tree[d][c] EXCEPT !.whole = TRUE]
        <5>1. f \in Files /\ f.by = c /\ f.whole
          BY <2>3, <4>2
        <5>2. tree'[d] = [tree[d] EXCEPT ![c] = f]
          BY <2>4, <4>2
        <5> HIDE DEF f
        <5> QED BY <1>1, <4>2, <5>1, <5>2 DEF Typed, Nodes
      <4> QED BY <4>1, <4>2
    <3>2. tree' = [d \in Dirs |-> tree'[d]]
      BY <2>1
    <3> QED BY <3>1, <3>2 DEF Typed
  <2>6. \A d \in Dirs : \A n \in Names : tree'[d][n] = tree[d][n]
    BY <1>1, <2>5
  <2>7. NoTornFile' /\ (\A d : Attached(d)' <=> Attached(d))
    BY <2>6 DEF NoTornFile, Attached
  <2>8. \A d \in Dirs : tree[d] = Empty => tree'[d] = Empty
    BY <2>4 DEF Empty
  <2>9. TreeShape'
    <3>1. Empty' = Empty
      BY DEF Empty
    <3> QED BY <2>6, <2>7, <2>8, <3>1 DEF TreeShape, Dirs
  <2>10. \A d \in Dirs : tree[d][c] = Absent => tree'[d][c] = Absent
    BY <2>4
  <2>11. \A x \in Clients \ {c} : \A d \in Dirs : tree'[d][x] = tree[d][x]
    BY <2>5
  <2>12. \A d, e \in Dirs : tree'[d][c] # Absent /\ tree'[e][c] # Absent => d = e
    BY <2>10 DEF TempInPlace
  <2>13. \A d \in Dirs :
           /\ tree'[d][c] = Absent \/ (tree'[d][c] \in Files /\ tree'[d][c].by = c)
           /\ tree'[d][c] # Absent => tree'[d][c].whole
    BY <2>5, <2>10
  <2> QED BY <1>1, <1>8, <2>5, <2>6, <2>7, <2>9, <2>10, <2>11, <2>12, <2>13 DEF Served
<1> QED BY <1>6, <1>7, <1>8

(* To remove a file or an empty directory, and to make a directory, changes *)
(* one entry under a name.                                                 *)
LEMMA PutServed ==
  ASSUME FileOpsAssumption, TypeOK, NoTornFile, TreeShape, NEW c \in Clients,
         CallInPlace(c), TempInPlace(c),
         NEW m \in {"unlink", "remove", "rmdir", "mkdir top", "mkdir"}, Pending(c, m),
         tree' \in Effects(c, m)
  PROVE  Served(c, m)
<1>1. /\ m \in Requests /\ m \notin {"open", "fill", "cleanup"}
      /\ m \notin Renaming \ {"unlink"} /\ call[c].to \in Paths /\ Typed(tree)
      /\ Absent \notin Subs
  <2>1. m \in Requests /\ m \notin {"open", "fill", "cleanup"}
        /\ m \notin Renaming \ {"unlink"}
    BY DEF Requests, Renaming
  <2>2. call[c] \in Operations
    BY <2>1, PendingFacts
  <2> QED BY <2>1, <2>2, CallFacts DEF TypeOK, Typed, FileOpsAssumption, Dirs
<1>2. ASSUME NEW p \in Paths, NEW node \in Subs \cup {Absent},
             DirOf(tree, p) # Absent, tree' = Put(p, node),
             At(tree, p) \in Subs => tree[At(tree, p)] = Empty,
             node \in Subs => ~Attached(node)
      PROVE  Served(c, m)
  <2>1. DirOf(tree, p) \in Dirs /\ (DirOf(tree, p) = Root \/ Attached(DirOf(tree, p)))
    BY <1>2, DirOfFacts DEF Dirs
  <2>2. PICK D \in Dirs : D = DirOf(tree, p)
    BY <2>1
  <2>3. PICK k \in Names : k = Last(p)
    BY <1>2, PathFacts
  <2>4. /\ D = Root \/ Attached(D)
        /\ tree' = [tree EXCEPT ![D][k] = node]
        /\ tree[D][k] \in Subs => tree[tree[D][k]] = Empty
    BY <1>2, <2>1, <2>2, <2>3 DEF Put, At
  <2>5. /\ Typed(tree') /\ tree'[D][k] = node
        /\ \A d \in Dirs : \A n \in Names : (d = D /\ n = k) \/ tree'[d][n] = tree[d][n]
        /\ \A d \in Dirs : \A x \in Clients : tree'[d][x] = tree[d][x]
        /\ \A d \in Dirs : d # D => tree'[d] = tree[d]
    BY <1>1, <2>4 DEF Typed, Nodes, FileOpsAssumption
  <2>6. TreeShape'
    <3>1. k \in Names \cup Clients
      OBVIOUS
    <3>2. /\ tree'[D][k] = node /\ (D = Root \/ Attached(D))
          /\ \A d \in Dirs : \A n \in Names :
               (d = D /\ n = k) \/ tree'[d][n] = tree[d][n]
          /\ \A d \in Dirs : d # D => tree'[d] = tree[d]
          /\ k \in Names /\ tree[D][k] \in Subs => tree[tree[D][k]] = Empty
          /\ k \in Names /\ node \in Subs => ~Attached(node)
      BY <1>2, <2>4, <2>5
    <3> QED BY <3>1, <3>2, PutKeepsShape
  <2>7. NoTornFile'
    BY <1>2, <2>5 DEF NoTornFile
  <2>8. \A d \in Dirs :
          /\ tree'[d][c] = Absent \/ (tree'[d][c] \in Files /\ tree'[d][c].by = c)
          /\ m \in Renaming /\ tree'[d][c] # Absent => tree'[d][c].whole
    <3>1. \A d \in Dirs : tree'[d][c] = tree[d][c]
      BY <2>5
    <3>2. \A d \in Dirs : tree[d][c] = Absent \/ (tree[d][c] \in Files /\ tree[d][c].by = c)
      BY DEF TempInPlace
    <3>3. m \in Renaming => \A d \in Dirs : tree[d][c] # Absent => tree[d][c].whole
      BY DEF TempInPlace
    <3> QED BY <3>1, <3>2, <3>3
  <2>9. \A d, e \in Dirs : tree'[d][c] # Absent /\ tree'[e][c] # Absent => d = e
    <3>1. \A d \in Dirs : tree'[d][c] = tree[d][c]
      BY <2>5
    <3>2. \A d, e \in Dirs : tree[d][c] # Absent /\ tree[e][c] # Absent => d = e
      BY DEF TempInPlace
    <3> QED BY <3>1, <3>2
  <2>10. m \notin {"rename", "rename3", "again"}
    OBVIOUS
  <2>11. /\ Typed(tree')
         /\ \A x \in Clients \ {c} : \A d \in Dirs : tree'[d][x] = tree[d][x]
         /\ \A d \in Dirs : tree[d][c] = Absent => tree'[d][c] = Absent
    BY <2>5
  <2>12. m \notin Renaming \ {"unlink"} /\ m \notin {"open", "fill", "cleanup"}
    BY <1>1
  <2> QED BY <2>6, <2>7, <2>8, <2>9, <2>10, <2>11, <2>12 DEF Served
<1>3. CASE m \in {"unlink", "remove"}
  <2>1. tree' \in RemovedFile(call[c].to)
    BY <1>3 DEF Effects
  <2>2. At(tree, call[c].to) \notin Subs \cup {Absent} /\ tree' = Put(call[c].to, Absent)
    BY <2>1 DEF RemovedFile
  <2>3. DirOf(tree, call[c].to) # Absent
    BY <2>2 DEF At
  <2> QED BY <1>1, <1>2, <2>2, <2>3
<1>4. CASE m = "rmdir"
  <2>1. /\ At(tree, call[c].to) \in Subs /\ tree[At(tree, call[c].to)] = Empty
        /\ tree' = Put(call[c].to, Absent)
    BY <1>4 DEF Effects
  <2>2. DirOf(tree, call[c].to) # Absent
    BY <1>1, <2>1 DEF At
  <2> QED BY <1>1, <1>2, <2>1, <2>2
<1>5. CASE m \in {"mkdir top", "mkdir"}
  <2> DEFINE p == IF m = "mkdir" THEN call[c].to ELSE <<call[c].to[1]>>
  <2>1. PICK s \in Subs : /\ DirOf(tree, p) # Absent /\ At(tree, p) = Absent
                          /\ ~Attached(s) /\ tree' = Put(p, s)
    BY <1>5 DEF Effects
  <2>2. p \in Paths
    BY <1>1, PathFacts
  <2> HIDE DEF p
  <2> QED BY <1>1, <1>2, <2>1, <2>2
<1> QED BY <1>3, <1>4, <1>5

(* To rename puts an entry in the place of another, and takes a write's    *)
(* temporary file away.                                                    *)
LEMMA RenameServed ==
  ASSUME FileOpsAssumption, TypeOK, NoTornFile, TreeShape, NEW c \in Clients,
         CallInPlace(c), TempInPlace(c),
         NEW m \in {"rename", "rename3", "again"}, Pending(c, m),
         tree' \in Effects(c, m)
  PROVE  Served(c, m)
<1> DEFINE to  == call[c].to
           src == Source(c)
<1>1. /\ m \in Requests /\ m \notin {"open", "fill", "cleanup"}
      /\ m \in Renaming \ {"unlink"} /\ call[c] \in Operations
      /\ call[c].op \in {"write", "move"}
      /\ to \in Paths /\ Typed(tree) /\ Absent \notin Subs \cup Files
  <2>1. m \in Requests /\ m \notin {"open", "fill", "cleanup"}
        /\ m \in Renaming \ {"unlink"}
    BY DEF Requests, Renaming
  <2>2. call[c] \in Operations /\ call[c].op \in {"write", "move"}
    BY <2>1, PendingFacts
  <2> QED BY <2>1, <2>2, CallFacts DEF TypeOK, Typed, FileOpsAssumption, Dirs
<1>2. /\ Replaces(src, to) /\ tree' = Renamed(src, to)
      /\ m \in {"rename3", "again"} => Target(c) = Absent
  BY DEF Effects, Target
<1>3. DirOf(tree, src) # Absent /\ At(tree, src) # Absent
  BY <1>2 DEF Replaces, At
<1>4. /\ call[c].op = "write" => Last(src) = c /\ DirOf(tree, src) = DirOf(tree, to)
      /\ call[c].op = "move" => src \in Paths /\ Last(src) \in Names
  <2>1. Last(Temp(c)) = c /\ DirOf(tree, Temp(c)) = DirOf(tree, to)
    BY <1>1, TempFacts DEF Temp
  <2>2. call[c].op = "move" => call[c].from \in Paths
    BY <1>1, CallFacts
  <2> QED BY <2>1, <2>2, PathFacts DEF Source
<1>5. /\ DirOf(tree, to) \in Dirs /\ (DirOf(tree, to) = Root \/ Attached(DirOf(tree, to)))
      /\ DirOf(tree, src) \in Dirs /\ (DirOf(tree, src) = Root \/ Attached(DirOf(tree, src)))
  <2>1. DirOf(tree, to) # Absent
    BY <1>2 DEF Replaces
  <2> QED BY <1>1, <1>3, <1>4, <2>1, DirOfFacts DEF Dirs
<1>6. PICK D \in Dirs, E \in Dirs, k \in Names \cup Clients, l \in Names :
        /\ D = DirOf(tree, src) /\ E = DirOf(tree, to)
        /\ k = Last(src) /\ l = Last(to)
  BY <1>1, <1>4, <1>5, PathFacts
<1>7. At(tree, src) = tree[D][k] /\ At(tree, to) = tree[E][l] /\ E # Absent
  BY <1>2, <1>3, <1>6 DEF At, Replaces
<1>8. tree' = [tree EXCEPT ![D][k] = Absent, ![E][l] = tree[D][k]]
  BY <1>2, <1>6, <1>7 DEF Renamed
<1>9. /\ D = Root \/ Attached(D)
      /\ E = Root \/ Attached(E)
      /\ tree[D][k] # Absent /\ E # tree[D][k]
      /\ tree[D][k] \in Subs =>
           tree[E][l] = Absent \/ (tree[E][l] \in Subs /\ tree[tree[E][l]] = Empty)
      /\ tree[D][k] \notin Subs => tree[E][l] \notin Subs
  BY <1>2, <1>3, <1>5, <1>6, <1>7 DEF Replaces
<1>10. /\ call[c].op = "write" => /\ k = c /\ D = E
                                  /\ tree[D][k] \in Files
                                  /\ tree[D][k].by = c /\ tree[D][k].whole
       /\ call[c].op = "move" => k \in Names /\ \A d \in Dirs : tree[d][c] = Absent
  <2>1. pc[c] # "idle"
    BY <1>1, PendingFacts
  <2> QED BY <1>1, <1>4, <1>6, <1>9, <2>1 DEF TempInPlace
<1>11. tree[D][k] \in Nodes /\ Names \cap Clients = {}
  BY <1>1 DEF Typed, FileOpsAssumption
<1>12. /\ Typed(tree') /\ tree'[E][l] = tree[D][k]
       /\ (D = E /\ k = l) \/ tree'[D][k] = Absent
       /\ \A d \in Dirs : \A n \in Names \cup Clients :
            (d = D /\ n = k) \/ (d = E /\ n = l) \/ tree'[d][n] = tree[d][n]
       /\ \A d \in Dirs : d # D /\ d # E => tree'[d] = tree[d]
  BY <1>1, <1>8, <1>11 DEF Typed, Nodes
<1>13. tree[D][k] \in Subs => k \in Names
  <2>1. Files \cap Subs = {}
    BY DEF FileOpsAssumption, Dirs
  <2> QED BY <1>1, <1>10, <2>1
<1>14. TreeShape'
  <2>1. \A d \in Dirs : \A n \in Names :
          (d = D /\ n = k) \/ (d = E /\ n = l) \/ tree'[d][n] = tree[d][n]
    BY <1>12
  <2>2. tree[D][k] \in Subs =>
          /\ k \in Names
          /\ tree[E][l] = Absent \/ (tree[E][l] \in Subs /\ tree[tree[E][l]] = Empty)
    BY <1>9, <1>13
  <2> QED BY <1>1, <1>9, <1>12, <2>1, <2>2, RenameKeepsShape
<1>15. NoTornFile'
  <2>1. tree[D][k] \in Subs \cup {Absent} \/ tree[D][k].whole
    BY <1>1, <1>10 DEF NoTornFile
  <2>2. ASSUME NEW d \in Dirs, NEW n \in Names
        PROVE  tree'[d][n] \in Subs \cup {Absent} \/ tree'[d][n].whole
    BY <1>12, <2>1 DEF NoTornFile
  <2> QED BY <2>2 DEF NoTornFile
<1>16. \A x \in Clients \ {c} : \A d \in Dirs : tree'[d][x] = tree[d][x]
  BY <1>1, <1>10, <1>11, <1>12
<1>17. \A d \in Dirs : tree'[d][c] = Absent
  <2>1. CASE call[c].op = "write"
    <3>1. \A d \in Dirs : d # D => tree[d][c] = Absent
      BY <1>9, <1>10, <2>1 DEF TempInPlace
    <3> QED BY <1>10, <1>11, <1>12, <2>1, <3>1
  <2>2. CASE call[c].op = "move"
    BY <1>10, <1>11, <1>12, <2>2
  <2> QED BY <1>1, <2>1, <2>2
<1>18. call[c].op = "write" => At(tree', to) \in Files /\ At(tree', to).by = c
  <2> SUFFICES ASSUME call[c].op = "write"
               PROVE  At(tree', to) \in Files /\ At(tree', to).by = c
    OBVIOUS
  <2>1. \A d \in Dirs : \A n \in Names :
          d # DirOf(tree, to) \/ n # Last(to) => tree'[d][n] = tree[d][n]
    BY <1>6, <1>10, <1>11, <1>12
  <2>2. DirOf(tree', to) = E
    BY <1>1, <1>6, <1>7, <2>1, SameDir
  <2>3. At(tree', to) = tree'[E][l]
    BY <1>6, <1>7, <2>2 DEF At
  <2> QED BY <1>10, <1>12, <2>3
<1> QED BY <1>1, <1>2, <1>12, <1>14, <1>15, <1>16, <1>17, <1>18 DEF Served

(* Every request that is served changes the tree as its kind says.         *)
LEMMA RequestServed ==
  ASSUME FileOpsAssumption, TypeOK, NoTornFile, TreeShape, NEW c \in Clients,
         CallInPlace(c), TempInPlace(c), NEW m \in Requests, Pending(c, m),
         tree' \in Effects(c, m)
  PROVE  Served(c, m)
<1>1. CASE m \in {"open", "fill", "cleanup"}
  BY <1>1, TempServed
<1>2. CASE m \in {"unlink", "remove", "rmdir", "mkdir top", "mkdir"}
  BY <1>2, PutServed
<1>3. CASE m \in {"rename", "rename3", "again"}
  BY <1>3, RenameServed
<1> QED BY <1>1, <1>2, <1>3 DEF Requests

(***************************************************************************)
(* A client that goes on.                                                  *)
(***************************************************************************)
(* It is at its next request, or done with a result, and the lock of the   *)
(* broker is free when a client of the broker is done.                     *)
LEMMA GoesFacts ==
  ASSUME FileOpsAssumption, TypeOK, NEW c \in Clients,
         NEW next \in Looks \cup Requests \cup {"ok", "error", "lost"}, Goes(c, next)
  PROVE  /\ pc' \in [Clients -> Looks \cup Requests \cup {"idle", "done"}]
         /\ result' \in [Clients -> {"none", "ok", "error", "lost"}]
         /\ sftpLock' \in Brokered \cup {Absent}
         /\ \A x \in Clients \ {c} : pc'[x] = pc[x] /\ result'[x] = result[x]
         /\ next \in Looks \cup Requests => pc'[c] = next /\ result'[c] = result[c]
         /\ next \in {"ok", "error", "lost"} => pc'[c] = "done" /\ result'[c] = next
         /\ OneAtATime /\ Active(c) => OneAtATime'
<1>1. \A n \in {"ok", "error", "lost"} : n \notin Looks \cup Requests
  BY DEF Looks, Requests
<1>2. "done" \notin Looks \cup Requests
  BY DEF Looks, Requests
<1>3. "idle" \notin Looks \cup Requests
  BY DEF Looks, Requests
<1>4. /\ next \in Looks \cup Requests => pc' = [pc EXCEPT ![c] = next]
      /\ next \notin Looks \cup Requests => pc' = [pc EXCEPT ![c] = "done"]
  BY DEF Goes
<1>5. /\ pc' \in [Clients -> Looks \cup Requests \cup {"idle", "done"}]
      /\ \A x \in Clients \ {c} : pc'[x] = pc[x]
      /\ next \in Looks \cup Requests => pc'[c] = next /\ pc'[c] # "done"
      /\ next \in {"ok", "error", "lost"} => pc'[c] = "done"
  BY <1>1, <1>2, <1>4 DEF TypeOK
<1>6. /\ pc'[c] = "done" => result' = [result EXCEPT ![c] = next]
      /\ pc'[c] # "done" => result' = [result EXCEPT ![c] = result[c]]
  BY DEF Goes
<1>7. /\ result' \in [Clients -> {"none", "ok", "error", "lost"}]
      /\ \A x \in Clients \ {c} : result'[x] = result[x]
      /\ next \in Looks \cup Requests => result'[c] = result[c]
      /\ next \in {"ok", "error", "lost"} => result'[c] = next
  BY <1>5, <1>6 DEF TypeOK
<1>8. /\ pc'[c] = "done" /\ sftpLock = c => sftpLock' = Absent
      /\ ~(pc'[c] = "done" /\ sftpLock = c) => sftpLock' = sftpLock
  BY DEF Goes
<1>9. ASSUME OneAtATime, Active(c) PROVE OneAtATime'
  <2>1. \A b \in Brokered : b \in Clients /\ b # Absent
    BY DEF FileOpsAssumption, Clients
  <2>2. ASSUME NEW b \in Brokered PROVE Active(b)' <=> sftpLock' = b
    <3>1. CASE b = c
      <4>1. sftpLock = c
        BY <1>9, <3>1 DEF OneAtATime
      <4>2. CASE next \in Looks \cup Requests
        BY <1>3, <1>5, <1>8, <3>1, <4>1, <4>2 DEF Active
      <4>3. CASE next \in {"ok", "error", "lost"}
        BY <1>5, <1>8, <2>1, <3>1, <4>1, <4>3 DEF Active
      <4> QED BY <4>2, <4>3
    <3>2. CASE b # c
      <4>1. Active(b)' <=> Active(b)
        BY <1>5, <2>1, <3>2 DEF Active
      <4>2. sftpLock' = b <=> sftpLock = b
        BY <1>8, <2>1, <3>2
      <4> QED BY <1>9, <4>1, <4>2 DEF OneAtATime
    <3> QED BY <3>1, <3>2
  <2> QED BY <2>2 DEF OneAtATime
<1> QED BY <1>5, <1>7, <1>8, <1>9 DEF TypeOK

(* What a client that is at work may do with the requests on their way: one *)
(* that is lost with its session may be served later.                      *)
LateAdded(c, next) ==
  \/ late' = late
  \/ /\ pc[c] \in Requests /\ late' = late \cup {<<c, pc[c]>>}
     /\ next = "lost" \/ (next = "error" /\ pc[c] = "cleanup")

\* The next request is one of its operation.
InTurn(c, next) ==
  \/ next \in {"ok", "error", "lost"}
  \/ /\ next \in (Looks \cup Requests) \cap Steps[call[c].op]
     /\ posix => next \notin Renaming \ {"rename"}

(* Each client is still at a step of its operation.                        *)
LEMMA GoesInPlace ==
  ASSUME FileOpsAssumption, TypeOK, \A x \in Clients : CallInPlace(x),
         NEW c \in Clients, Active(c),
         NEW next \in Looks \cup Requests \cup {"ok", "error", "lost"}, Goes(c, next),
         InTurn(c, next), LateAdded(c, next), UNCHANGED <<posix, call>>
  PROVE  \A x \in Clients : CallInPlace(x)'
<1>1. /\ \A x \in Clients \ {c} : pc'[x] = pc[x] /\ result'[x] = result[x]
      /\ next \in Looks \cup Requests => pc'[c] = next /\ result'[c] = result[c]
      /\ next \in {"ok", "error", "lost"} => pc'[c] = "done" /\ result'[c] = next
  BY GoesFacts
<1>2. /\ pc[c] # "idle" /\ pc[c] # "done" /\ call[c] \in Operations
      /\ pc[c] \in Steps[call[c].op] /\ result[c] = "none"
      /\ \A m \in Requests : <<c, m>> \notin late
      /\ posix => pc[c] \notin Renaming \ {"rename"}
  BY DEF Active, CallInPlace
<1>3. ASSUME NEW x \in Clients, x # c PROVE CallInPlace(x)'
  <2>1. \A m \in Requests : <<x, m>> \in late' <=> <<x, m>> \in late
    BY <1>3 DEF LateAdded
  <2>2. pc'[x] = pc[x] /\ result'[x] = result[x] /\ call'[x] = call[x] /\ posix' = posix
    BY <1>1, <1>3
  <2>3. CallInPlace(x)
    OBVIOUS
  <2> QED BY <2>1, <2>2, <2>3 DEF CallInPlace
<1>4. CallInPlace(c)'
  <2>1. \A m \in Requests : <<c, m>> \in late' =>
          /\ pc[c] = m /\ next \in {"lost", "error"}
          /\ next = "lost" \/ (next = "error" /\ m = "cleanup")
    BY <1>2 DEF LateAdded
  <2>2. pc'[c] # "idle" => call'[c] \in Operations /\ pc'[c] \in Steps[call'[c].op]
    <3>1. next \in {"ok", "error", "lost"} => "done" \in Steps[call[c].op]
      <4>1. call[c].op \in {"write", "move", "mkdir", "delete"}
        BY <1>2, CallFacts
      <4> QED BY <4>1, StepsOf
    <3>2. next \in {"ok", "error", "lost"} \/ next \in (Looks \cup Requests) \cap Steps[call[c].op]
      BY DEF InTurn
    <3>3. pc'[c] \in Steps[call[c].op]
      BY <1>1, <3>1, <3>2
    <3> QED BY <1>2, <3>3
  <2>3. pc'[c] = "done" <=> result'[c] # "none"
    <3>1. "done" \notin Looks \cup Requests
      BY DEF Looks, Requests
    <3> QED BY <1>1, <1>2, <3>1
  <2>4. posix' => pc'[c] \notin Renaming \ {"rename"}
    <3>1. "done" \notin Renaming
      BY DEF Renaming
    <3>2. \A n \in {"ok", "error", "lost"} : n \notin Renaming
      BY DEF Renaming
    <3> QED BY <1>1, <3>1, <3>2 DEF InTurn
  <2>5. ASSUME NEW m \in Requests, <<c, m>> \in late'
        PROVE  /\ pc'[c] = "done" /\ m \in Steps[call'[c].op]
               /\ result'[c] = "lost" \/ (result'[c] = "error" /\ m = "cleanup")
               /\ posix' => m \notin Renaming \ {"rename"}
    BY <1>1, <1>2, <2>1, <2>5
  <2>6. \A l, m \in Requests : <<c, l>> \in late' /\ <<c, m>> \in late' => l = m
    BY <2>1
  <2> QED BY <2>2, <2>3, <2>4, <2>5, <2>6 DEF CallInPlace
<1> QED BY <1>3, <1>4

\* A client that goes on leaves the tree alone, or its request was served.
TreeServed(c) ==
  tree' = tree \/ (pc[c] \in Requests /\ late' = late /\ Served(c, pc[c]))

\* There is no temporary file where there must be none, and it is whole when it
\* is to be renamed.
TempReady(c, next) ==
  /\ call[c].op = "write" /\ next \in Looks \cup {"open"} =>
       \A d \in Dirs : tree'[d][c] = Absent
  /\ call[c].op = "write" /\ next \in Renaming =>
       \A d \in Dirs : tree'[d][c] # Absent => tree'[d][c].whole

(* The temporary files of all clients are as their steps say.              *)
LEMMA GoesWithTemps ==
  ASSUME FileOpsAssumption, TypeOK, \A x \in Clients : CallInPlace(x) /\ TempInPlace(x),
         NEW c \in Clients, Active(c),
         NEW next \in Looks \cup Requests \cup {"ok", "error", "lost"}, Goes(c, next),
         LateAdded(c, next), UNCHANGED <<posix, call>>,
         TreeServed(c), TempReady(c, next)
  PROVE  \A x \in Clients : TempInPlace(x)'
<1>1. /\ \A x \in Clients \ {c} : pc'[x] = pc[x]
      /\ next \in Looks \cup Requests => pc'[c] = next
      /\ next \in {"ok", "error", "lost"} => pc'[c] = "done"
  BY GoesFacts
<1>2. ASSUME NEW x \in Clients, x # c PROVE TempInPlace(x)'
  <2>1. \A m \in Requests : Pending(x, m)' <=> Pending(x, m)
    BY <1>1, <1>2 DEF LateAdded, Pending
  <2>2. \A d \in Dirs : tree'[d][x] = tree[d][x]
    BY <1>2 DEF TreeServed, Served
  <2>3. pc'[x] = pc[x] /\ call'[x] = call[x]
    BY <1>1, <1>2
  <2>4. Renaming \subseteq Requests /\ "open" \in Requests
    BY DEF Renaming, Requests
  <2>5. TempInPlace(x)
    OBVIOUS
  <2> QED BY <2>1, <2>2, <2>3, <2>4, <2>5 DEF TempInPlace
<1>3. TempInPlace(c)'
  <2>1. TempInPlace(c) /\ CallInPlace(c)
    OBVIOUS
  <2>2. /\ pc[c] # "idle" /\ pc[c] # "done" /\ \A m \in Requests : <<c, m>> \notin late
        /\ call'[c] = call[c] /\ call[c].op \in {"write", "move", "mkdir", "delete"}
    <3>1. /\ pc[c] # "idle" /\ pc[c] # "done" /\ \A m \in Requests : <<c, m>> \notin late
          /\ call'[c] = call[c] /\ call[c] \in Operations
      BY <2>1 DEF Active, CallInPlace
    <3> QED BY <3>1, CallFacts
  <2>3. pc[c] \in Requests => Pending(c, pc[c])
    BY DEF Pending
  <2>4. \A m \in Requests : <<c, m>> \in late' =>
          pc[c] = m /\ tree' = tree /\ next \in {"lost", "error"}
    <3> SUFFICES ASSUME NEW m \in Requests, <<c, m>> \in late'
                 PROVE  pc[c] = m /\ tree' = tree /\ next \in {"lost", "error"}
      OBVIOUS
    <3>1. late' # late
      BY <2>2
    <3> QED BY <2>2, <3>1 DEF LateAdded, TreeServed
  <2>5. \A d \in Dirs : tree'[d][c] = Absent \/ (tree'[d][c] \in Files /\ tree'[d][c].by = c)
    BY <2>1 DEF TreeServed, Served, TempInPlace
  <2>6. \A d, e \in Dirs : tree'[d][c] # Absent /\ tree'[e][c] # Absent => d = e
    BY <2>1 DEF TreeServed, Served, TempInPlace
  <2>7. call[c].op # "write" => \A d \in Dirs : tree'[d][c] = Absent
    <3> SUFFICES ASSUME call[c].op # "write" PROVE \A d \in Dirs : tree'[d][c] = Absent
      OBVIOUS
    <3>1. \A d \in Dirs : tree[d][c] = Absent
      BY <2>1, <2>2 DEF TempInPlace
    <3>2. pc[c] # "open"
      <4>1. "open" \in Requests
        BY DEF Requests
      <4> QED BY <2>1, <2>3, <4>1, PendingFacts
    <3> QED BY <3>1, <3>2 DEF TreeServed, Served
  <2>8. ASSUME pc'[c] \in Looks \cup {"idle"} \/ Pending(c, "open")'
        PROVE  \A d \in Dirs : tree'[d][c] = Absent
    <3>1. "open" \in Requests /\ "done" \notin Looks \cup {"idle", "open"}
          /\ "idle" \notin Looks \cup Requests
      BY DEF Requests, Looks
    <3>2. CASE <<c, "open">> \in late'
      <4>1. Pending(c, "open") /\ tree' = tree
        BY <2>4, <3>1, <3>2 DEF Pending
      <4> QED BY <2>1, <4>1 DEF TempInPlace
    <3>3. CASE pc'[c] \in Looks \cup {"idle", "open"}
      <4>1. next \in Looks \cup {"open"}
        BY <1>1, <3>1, <3>3
      <4> QED BY <2>7, <4>1 DEF TempReady
    <3> QED BY <2>8, <3>2, <3>3 DEF Pending
  <2>9. ASSUME NEW m \in Renaming, Pending(c, m)', NEW d \in Dirs, tree'[d][c] # Absent
        PROVE  tree'[d][c].whole
    <3>1. m \in Requests /\ m # "done"
      BY DEF Renaming, Requests
    <3>2. CASE <<c, m>> \in late'
      <4>1. Pending(c, m) /\ tree' = tree
        BY <2>4, <3>1, <3>2 DEF Pending
      <4> QED BY <2>1, <2>9, <4>1 DEF TempInPlace
    <3>3. CASE pc'[c] = m
      <4>1. next \in Renaming
        BY <1>1, <3>1, <3>3
      <4> QED BY <2>7, <2>9, <4>1 DEF TempReady
    <3> QED BY <2>9, <3>2, <3>3 DEF Pending
  <2> QED BY <2>2, <2>5, <2>6, <2>7, <2>8, <2>9 DEF TempInPlace
<1> QED BY <1>2, <1>3

(* Nobody else's expectation is harmed by a change that does not touch its *)
(* target, or that makes the client at work a disturber of it.             *)
LEMMA OthersExpect ==
  ASSUME TypeOK, NEW c \in Clients, NEW x \in Clients \ {c}, ExpectationInPlace(x),
         pc'[x] = pc[x], call'[x] = call[x], result'[x] = result[x],
         replaced'[x] = replaced[x], reported'[x] = reported[x],
         \A y \in Clients : result[y] = "lost" => result'[y] = "lost",
         pc[x] = "done" => result[x] # "none",
         \/ /\ disturbers'[x] = disturbers[x]
            /\ Active(x) => At(tree', call[x].to) = At(tree, call[x].to)
         \/ /\ disturbers'[x] = disturbers[x] \cup {c}
            /\ {x, c} \cap Outsiders # {} \/ result'[c] = "lost"
  PROVE  ExpectationInPlace(x)'
<1>1. \A y \in disturbers'[x] : {x, y} \cap Outsiders # {} \/ result'[y] = "lost"
  BY DEF ExpectationInPlace, TypeOK
<1>2. ASSUME pc'[x] # "idle", disturbers'[x] = {} PROVE AsExpected(x)'
  <2>1. /\ disturbers[x] = {}
        /\ Active(x) => At(tree', call[x].to) = At(tree, call[x].to)
    BY <1>2
  <2>2. AsExpected(x)
    BY <1>2, <2>1 DEF ExpectationInPlace
  <2>3. (Met(x)' <=> Met(x)) /\ (ReportsOwn(x)' <=> ReportsOwn(x))
    BY DEF Met, ReportsOwn
  <2>4. CASE Active(x)
    <3>1. Target(x)' = Target(x)
      BY <2>1, <2>4 DEF Target
    <3> QED BY <2>2, <2>3, <3>1 DEF AsExpected
  <2>5. CASE ~Active(x)
    <3>1. pc[x] = "done"
      BY <1>2, <2>5 DEF Active
    <3> QED BY <2>2, <2>3, <3>1 DEF AsExpected
  <2> QED BY <2>4, <2>5
<1>3. pc'[x] \in (Looks \ {"restat"}) \cup {"idle", "mkdir top"} => replaced'[x] = Absent
  BY DEF ExpectationInPlace
<1> QED BY <1>1, <1>2, <1>3 DEF ExpectationInPlace

(* When nothing changes in the tree nobody is disturbed.                   *)
LEMMA QuietDisturbsNobody ==
  ASSUME TypeOK, NEW c, tree' = tree, disturbers' = disturbers
  PROVE  Disturbs(c)
<1>1. \A p : At(tree', p) = At(tree, p)
  OBVIOUS
<1>2. disturbers = [x \in Clients |-> disturbers[x]]
  BY DEF TypeOK
<1> QED BY <1>1, <1>2 DEF Disturbs

(* What Disturbs does to each client.                                      *)
LEMMA DisturbsFacts ==
  ASSUME TypeOK, NEW c \in Clients, Disturbs(c)
  PROVE  /\ disturbers' \in [Clients -> SUBSET Clients]
         /\ disturbers'[c] = disturbers[c]
         /\ \A x \in Clients :
              \/ /\ disturbers'[x] = disturbers[x]
                 /\ Active(x) /\ x # c => At(tree', call[x].to) = At(tree, call[x].to)
              \/ /\ disturbers'[x] = disturbers[x] \cup {c}
                 /\ Active(x) /\ x # c /\ At(tree', call[x].to) # At(tree, call[x].to)
<1>1. ASSUME NEW x \in Clients
      PROVE  /\ disturbers'[x] \in SUBSET Clients
             /\ \/ /\ disturbers'[x] = disturbers[x]
                   /\ Active(x) /\ x # c => At(tree', call[x].to) = At(tree, call[x].to)
                \/ /\ disturbers'[x] = disturbers[x] \cup {c}
                   /\ Active(x) /\ x # c /\ At(tree', call[x].to) # At(tree, call[x].to)
  BY DEF Disturbs, TypeOK
<1>2. disturbers' \in [Clients -> SUBSET Clients]
  BY <1>1 DEF Disturbs
<1> QED BY <1>1, <1>2

(* A client that goes on keeps the invariant, if its own expectation and   *)
(* its own temporary file are as its next step says.                       *)
LEMMA AdvanceKeeps ==
  ASSUME FileOpsAssumption, TreeInv, NEW c \in Clients, Active(c),
         NEW next \in Looks \cup Requests \cup {"ok", "error", "lost"}, Goes(c, next),
         InTurn(c, next), LateAdded(c, next), UNCHANGED <<posix, call>>,
         TreeServed(c), TempReady(c, next), Disturbs(c),
         replaced' \in [Clients -> Nodes], reported' \in [Clients -> Nodes],
         \A x \in Clients \ {c} : replaced'[x] = replaced[x] /\ reported'[x] = reported[x],
         next = "ok" => \A d \in Dirs : tree'[d][c] = Absent,
         ExpectationInPlace(c)'
  PROVE  TreeInv'
<1>1. /\ TypeOK /\ NoTornFile /\ NoLeftover /\ OneAtATime /\ TreeShape
      /\ \A x \in Clients : CallInPlace(x) /\ TempInPlace(x) /\ ExpectationInPlace(x)
  BY DEF TreeInv, FileInv
<1>2. /\ pc' \in [Clients -> Looks \cup Requests \cup {"idle", "done"}]
      /\ result' \in [Clients -> {"none", "ok", "error", "lost"}]
      /\ sftpLock' \in Brokered \cup {Absent}
      /\ \A x \in Clients \ {c} : pc'[x] = pc[x] /\ result'[x] = result[x]
      /\ next \in Looks \cup Requests => pc'[c] = next /\ result'[c] = result[c]
      /\ next \in {"ok", "error", "lost"} => pc'[c] = "done" /\ result'[c] = next
      /\ OneAtATime'
  BY <1>1, GoesFacts
<1>3. /\ disturbers' \in [Clients -> SUBSET Clients]
      /\ \A x \in Clients :
           \/ /\ disturbers'[x] = disturbers[x]
              /\ Active(x) /\ x # c => At(tree', call[x].to) = At(tree, call[x].to)
           \/ /\ disturbers'[x] = disturbers[x] \cup {c}
              /\ Active(x) /\ x # c /\ At(tree', call[x].to) # At(tree, call[x].to)
  BY <1>1, DisturbsFacts
<1>4. result[c] = "none"
  BY <1>1 DEF Active, CallInPlace
<1>5. TypeOK'
  <2>1. Typed(tree')
    BY <1>1 DEF TreeServed, Served, Typed, TypeOK
  <2>2. late' \subseteq Clients \X Requests
    BY <1>1 DEF LateAdded, TypeOK
  <2> QED BY <1>1, <1>2, <1>3, <2>1, <2>2 DEF TypeOK, Typed
<1>6. NoTornFile' /\ TreeShape'
  <2>1. CASE tree' = tree
    BY <1>1, <2>1 DEF NoTornFile, TreeShape, Attached, Empty
  <2>2. CASE Served(c, pc[c])
    BY <2>2 DEF Served
  <2> QED BY <2>1, <2>2 DEF TreeServed
<1>7. NoLeftover'
  <2> SUFFICES ASSUME NEW x \in Clients, result'[x] = "ok"
               PROVE  \A d \in Dirs : tree'[d][x] = Absent
    BY DEF NoLeftover
  <2>1. CASE x = c
    <3>1. next = "ok"
      BY <1>2, <1>4, <2>1
    <3> QED BY <2>1, <3>1
  <2>2. CASE x # c
    <3>1. \A d \in Dirs : tree'[d][x] = tree[d][x]
      BY <2>2 DEF TreeServed, Served
    <3> QED BY <1>1, <1>2, <2>2, <3>1 DEF NoLeftover
  <2> QED BY <2>1, <2>2
<1>8. \A x \in Clients : CallInPlace(x)'
  BY <1>1, GoesInPlace
<1>9. \A x \in Clients : TempInPlace(x)'
  BY <1>1, GoesWithTemps
<1>10. ASSUME NEW x \in Clients, x # c PROVE ExpectationInPlace(x)'
  <2>1. \A y \in Clients : result[y] = "lost" => result'[y] = "lost"
    BY <1>2, <1>4
  <2>2. pc[x] = "done" => result[x] # "none"
    BY <1>1 DEF CallInPlace
  <2>3. Active(x) => {x, c} \cap Outsiders # {}
    <3>1. ~(x \in Brokered /\ c \in Brokered /\ Active(x))
      BY <1>1, <1>10 DEF OneAtATime
    <3> QED BY <3>1 DEF Clients
  <2>4. \/ /\ disturbers'[x] = disturbers[x]
           /\ Active(x) => At(tree', call[x].to) = At(tree, call[x].to)
        \/ /\ disturbers'[x] = disturbers[x] \cup {c}
           /\ {x, c} \cap Outsiders # {} \/ result'[c] = "lost"
    BY <1>3, <1>10, <2>3
  <2> QED BY <1>1, <1>2, <1>10, <2>1, <2>2, <2>4, OthersExpect
<1> QED BY <1>2, <1>5, <1>6, <1>7, <1>8, <1>9, <1>10 DEF TreeInv, FileInv

(* What a client that goes on expects, whoever disturbed it before.        *)
LEMMA OwnExpectation ==
  ASSUME FileOpsAssumption, TreeInv, NEW c \in Clients, Active(c),
         NEW next \in Looks \cup Requests \cup {"ok", "error", "lost"}, Goes(c, next),
         disturbers'[c] = disturbers[c],
         next \in (Looks \ {"restat"}) \cup {"mkdir top"} => replaced'[c] = Absent,
         disturbers[c] = {} => AsExpected(c)'
  PROVE  ExpectationInPlace(c)'
<1>1. TypeOK /\ CallInPlace(c) /\ ExpectationInPlace(c)
  BY DEF TreeInv, FileInv
<1>2. /\ \A x \in Clients \ {c} : result'[x] = result[x]
      /\ next \in Looks \cup Requests => pc'[c] = next
      /\ next \in {"ok", "error", "lost"} => pc'[c] = "done"
  BY <1>1, GoesFacts
<1>3. result[c] = "none" /\ disturbers[c] \subseteq Clients
  BY <1>1 DEF Active, CallInPlace, TypeOK
<1>4. \A x \in disturbers'[c] : {c, x} \cap Outsiders # {} \/ result'[x] = "lost"
  BY <1>1, <1>2, <1>3 DEF ExpectationInPlace
<1>5. "done" \notin Looks \cup {"idle", "mkdir top"} /\ "idle" \notin Looks \cup Requests
  BY DEF Looks, Requests
<1> QED BY <1>2, <1>4, <1>5 DEF ExpectationInPlace

(* A look keeps the invariant, if what its client expects from then on is  *)
(* so.                                                                     *)
LEMMA LookKeeps ==
  ASSUME FileOpsAssumption, TreeInv, NEW c \in Clients, pc[c] \in Looks,
         NEW next \in Looks \cup Requests \cup {"ok", "error", "lost"}, Goes(c, next),
         InTurn(c, next), UNCHANGED <<posix, tree, call, late, replaced, disturbers>>,
         reported' \in [Clients -> Nodes],
         \A x \in Clients \ {c} : reported'[x] = reported[x],
         pc[c] = "restat" => next \notin Looks \cup {"mkdir top"},
         disturbers[c] = {} => AsExpected(c)'
  PROVE  TreeInv'
<1>1. TypeOK /\ TempInPlace(c) /\ ExpectationInPlace(c)
  BY DEF TreeInv, FileInv
<1>2. Active(c)
  BY DEF Active, Looks
<1>3. \A d \in Dirs : tree'[d][c] = Absent
  BY <1>1 DEF TempInPlace
<1>4. TempReady(c, next) /\ TreeServed(c) /\ LateAdded(c, next)
  BY <1>3 DEF TempReady, TreeServed, LateAdded
<1>5. Disturbs(c)
  BY <1>1, QuietDisturbsNobody
<1>6. next \in (Looks \ {"restat"}) \cup {"mkdir top"} => replaced'[c] = Absent
  BY <1>1 DEF ExpectationInPlace
<1>7. ExpectationInPlace(c)'
  BY <1>2, <1>6, OwnExpectation
<1>8. replaced' \in [Clients -> Nodes] /\ \A x \in Clients \ {c} : replaced'[x] = replaced[x]
  BY <1>1 DEF TypeOK
<1> QED BY <1>2, <1>3, <1>4, <1>5, <1>7, <1>8, AdvanceKeeps

(* What holds of a client that looks, before and after.                    *)
LEMMA LookFacts ==
  ASSUME FileOpsAssumption, TreeInv, NEW c \in Clients, NEW name \in Looks, NEW op,
         NEW next \in Looks \cup Requests \cup {"ok", "error", "lost"},
         Look(c, name, op, next)
  PROVE  /\ pc[c] = name /\ call[c].op = op /\ call[c] \in Operations /\ Goes(c, next)
         /\ UNCHANGED <<posix, tree, call, late, replaced, reported, disturbers>>
         /\ next \in Looks \cup Requests => pc'[c] = next /\ result'[c] = "none"
         /\ next \in {"ok", "error", "lost"} => pc'[c] = "done" /\ result'[c] = next
         /\ Target(c)' = Target(c) /\ Target(c) \in Nodes
         /\ disturbers[c] = {} => AsExpected(c)
         /\ reported' \in [Clients -> Nodes]
         /\ \A x \in Clients \ {c} : reported'[x] = reported[x]
<1>1. TypeOK /\ CallInPlace(c) /\ ExpectationInPlace(c)
  BY DEF TreeInv, FileInv
<1>2. /\ pc[c] = name /\ call[c].op = op /\ Goes(c, next)
      /\ UNCHANGED <<posix, tree, call, late, replaced, reported, disturbers>>
  BY DEF Look
<1>3. pc[c] # "idle" /\ pc[c] # "done" /\ call[c] \in Operations /\ result[c] = "none"
  BY <1>1, <1>2 DEF CallInPlace, Looks
<1>4. /\ next \in Looks \cup Requests => pc'[c] = next /\ result'[c] = result[c]
      /\ next \in {"ok", "error", "lost"} => pc'[c] = "done" /\ result'[c] = next
  BY <1>1, <1>2, GoesFacts
<1>5. Target(c)' = Target(c)
  BY <1>2 DEF Target
<1>6. Target(c) \in Nodes
  <2>1. call[c].to \in Paths
    BY <1>3, CallFacts
  <2>2. /\ DirOf(tree, call[c].to) \in Dirs \cup {Absent}
        /\ Last(call[c].to) \in Names
    BY <2>1, DirOfFacts, PathFacts
  <2> QED BY <1>1, <2>2 DEF Target, At, TypeOK, Nodes
<1> QED BY <1>1, <1>2, <1>3, <1>4, <1>5, <1>6 DEF ExpectationInPlace, TypeOK

(***************************************************************************)
(* The looks, one by one.                                                  *)
(***************************************************************************)
(* A write goes on when its target's stamp is the expected one.            *)
LEMMA LookAtCurrentKeeps ==
  ASSUME FileOpsAssumption, TreeInv, NEW c \in Clients, LookAtCurrent(c)
  PROVE  TreeInv'
<1> DEFINE o == call[c]
           t == Target(c)
<1>1. PICK n \in {"error", "hash", "open"} :
        /\ Look(c, "look", "write", n)
        /\ n # "error" => ~Conflict(c)
        /\ n = "hash" => o.hash # Absent /\ ~o.force
        /\ n = "open" => o.hash = Absent \/ o.force
  BY DEF LookAtCurrent
<1>2. /\ n \in Looks \cup Requests \cup {"ok", "error", "lost"}
      /\ "look" \in Looks /\ n \notin Renaming
      /\ n \in Looks \cup Requests \/ n = "error"
  BY DEF Looks, Requests, Renaming
<1>3. /\ pc[c] = "look" /\ o.op = "write" /\ o \in Operations /\ Goes(c, n)
      /\ UNCHANGED <<posix, tree, call, late, replaced, reported, disturbers>>
      /\ n \in Looks \cup Requests => pc'[c] = n /\ result'[c] = "none"
      /\ n = "error" => pc'[c] = "done" /\ result'[c] = n
      /\ Target(c)' = t /\ t \in Nodes
      /\ reported' \in [Clients -> Nodes]
      /\ \A x \in Clients \ {c} : reported'[x] = reported[x]
  BY <1>1, <1>2, LookFacts
<1>4. InTurn(c, n)
  BY <1>2, <1>3, StepsOf DEF InTurn
<1>5. o.force \in BOOLEAN
  BY <1>3, CallFacts
<1>6. n # "error" =>
        \/ o.force \/ (o.stamp = Absent /\ o.hash = Absent)
        \/ t \in Files /\ (o.stamp # Absent => t.stamp = o.stamp)
  BY <1>1, <1>3, <1>5 DEF Conflict, Nodes
<1>7. AsExpected(c)'
  <2>1. CASE n = "error"
    BY <1>3, <2>1 DEF AsExpected
  <2>2. CASE n = "hash"
    <3>1. t \in Files /\ (o.stamp # Absent => t.stamp = o.stamp)
      BY <1>1, <1>6, <2>2
    <3> QED BY <1>2, <1>3, <2>2, <3>1 DEF AsExpected
  <2>3. CASE n = "open"
    <3>1. \/ o.force \/ (o.stamp = Absent /\ o.hash = Absent)
          \/ t \in Files /\ (o.stamp # Absent => t.stamp = o.stamp) /\ o.hash = Absent
      BY <1>1, <1>6, <2>3
    <3> QED BY <1>2, <1>3, <2>3, <3>1 DEF AsExpected
  <2> QED BY <2>1, <2>2, <2>3
<1> QED BY <1>2, <1>3, <1>4, <1>7, LookKeeps

(* And when its hash is.                                                   *)
LEMMA Sha256Keeps ==
  ASSUME FileOpsAssumption, TreeInv, NEW c \in Clients, Sha256(c)
  PROVE  TreeInv'
<1> DEFINE o == call[c]
           t == Target(c)
<1>1. PICK n \in {"error", "open"} :
        /\ Look(c, "hash", "write", n)
        /\ n = "open" => t.by = o.hash
  BY DEF Sha256
<1>2. /\ n \in Looks \cup Requests \cup {"ok", "error", "lost"}
      /\ "hash" \in Looks /\ n \notin Renaming
      /\ n \in Looks \cup Requests \/ n = "error"
  BY DEF Looks, Requests, Renaming
<1>3. /\ pc[c] = "hash" /\ o.op = "write" /\ o \in Operations /\ Goes(c, n)
      /\ UNCHANGED <<posix, tree, call, late, replaced, reported, disturbers>>
      /\ n \in Looks \cup Requests => pc'[c] = n /\ result'[c] = "none"
      /\ n = "error" => pc'[c] = "done" /\ result'[c] = n
      /\ Target(c)' = t /\ t \in Nodes
      /\ disturbers[c] = {} => AsExpected(c)
      /\ reported' \in [Clients -> Nodes]
      /\ \A x \in Clients \ {c} : reported'[x] = reported[x]
  BY <1>1, <1>2, LookFacts
<1>4. InTurn(c, n)
  BY <1>2, <1>3, StepsOf DEF InTurn
<1>5. ASSUME disturbers[c] = {} PROVE AsExpected(c)'
  <2>1. CASE n = "error"
    BY <1>3, <2>1 DEF AsExpected
  <2>2. CASE n = "open"
    <3>1. t \in Files /\ (o.stamp # Absent => t.stamp = o.stamp) /\ t.by = o.hash
      BY <1>1, <1>3, <1>5, <2>2 DEF AsExpected
    <3> QED BY <1>2, <1>3, <2>2, <3>1 DEF AsExpected
  <2> QED BY <2>1, <2>2
<1> QED BY <1>2, <1>3, <1>4, <1>5, LookKeeps

(* A write replies with what it finds at its target.                       *)
LEMMA RestatKeeps ==
  ASSUME FileOpsAssumption, TreeInv, NEW c \in Clients, Restat(c)
  PROVE  TreeInv'
<1> DEFINE t == Target(c)
<1>1. TypeOK /\ CallInPlace(c) /\ ExpectationInPlace(c)
  BY DEF TreeInv, FileInv
<1>2. PICK n \in {"error", "ok"} : Goes(c, n)
  BY DEF Restat
<1>3. /\ pc[c] = "restat" /\ reported' = [reported EXCEPT ![c] = t]
      /\ UNCHANGED <<posix, tree, call, late, replaced, disturbers>>
  BY DEF Restat
<1>4. /\ n \in Looks \cup Requests \cup {"ok", "error", "lost"}
      /\ "restat" \in Looks /\ n \notin Looks \cup {"mkdir top"}
  BY DEF Looks
<1>5. pc'[c] = "done" /\ result'[c] = n
  BY <1>1, <1>2, <1>4, GoesFacts
<1>6. call[c] \in Operations
  BY <1>1, <1>3 DEF CallInPlace
<1>7. t \in Nodes
  <2>1. call[c].to \in Paths
    BY <1>6, CallFacts
  <2>2. /\ DirOf(tree, call[c].to) \in Dirs \cup {Absent}
        /\ Last(call[c].to) \in Names
    BY <2>1, DirOfFacts, PathFacts
  <2> QED BY <1>1, <2>2 DEF Target, At, TypeOK, Nodes
<1>8. /\ reported' \in [Clients -> Nodes] /\ reported'[c] = t
      /\ \A x \in Clients \ {c} : reported'[x] = reported[x]
  BY <1>1, <1>3, <1>7 DEF TypeOK
<1>9. InTurn(c, n)
  BY DEF InTurn
<1>10. ASSUME disturbers[c] = {} PROVE AsExpected(c)'
  <2>1. Met(c) /\ t \in Files /\ t.by = c
    BY <1>1, <1>3, <1>10 DEF ExpectationInPlace, AsExpected
  <2>2. Met(c)' <=> Met(c)
    BY <1>3 DEF Met
  <2>3. ReportsOwn(c)'
    BY <1>8, <2>1 DEF ReportsOwn
  <2> QED BY <1>5, <2>1, <2>2, <2>3 DEF AsExpected
<1> QED BY <1>2, <1>3, <1>4, <1>8, <1>9, <1>10, LookKeeps

(* A move goes on when its destination is free, or it is forced.           *)
LEMMA LookAtMoveKeeps ==
  ASSUME FileOpsAssumption, TreeInv, NEW c \in Clients,
         LookAtSource(c) \/ LookAtDestination(c)
  PROVE  TreeInv'
<1> DEFINE o == call[c]
           t == Target(c)
<1>1. PICK n \in {"error", "ok", "look to", "rename"}, name \in {"look", "look to"} :
        /\ Look(c, name, "move", n)
        /\ n \in {"ok", "rename"} => name = "look to"
        /\ n = "rename" => o.force \/ t = Absent
  <2>1. o.force \in BOOLEAN \/ ~(pc[c] = "look to" /\ o.op = "move")
    <3>1. TypeOK /\ CallInPlace(c)
      BY DEF TreeInv, FileInv
    <3>2. pc[c] = "look to" => o \in Operations
      BY <3>1 DEF CallInPlace
    <3> QED BY <3>2, CallFacts
  <2> QED BY <2>1 DEF LookAtSource, LookAtDestination, Look
<1>2. /\ n \in Looks \cup Requests \cup {"ok", "error", "lost"}
      /\ name \in Looks /\ name # "restat" /\ n \notin Renaming \ {"rename"}
      /\ n \in Looks \cup Requests \/ n \in {"ok", "error"}
  BY DEF Looks, Requests, Renaming
<1>3. /\ pc[c] = name /\ o.op = "move" /\ o \in Operations /\ Goes(c, n)
      /\ UNCHANGED <<posix, tree, call, late, replaced, reported, disturbers>>
      /\ n \in Looks \cup Requests => pc'[c] = n /\ result'[c] = "none"
      /\ n \in {"ok", "error"} => pc'[c] = "done" /\ result'[c] = n
      /\ Target(c)' = t
      /\ reported' \in [Clients -> Nodes]
      /\ \A x \in Clients \ {c} : reported'[x] = reported[x]
  BY <1>1, <1>2, LookFacts
<1>4. InTurn(c, n)
  BY <1>2, <1>3, StepsOf DEF InTurn
<1>5. AsExpected(c)'
  <2>1. CASE n \in {"error", "look to"}
    BY <1>2, <1>3, <2>1 DEF AsExpected
  <2>2. CASE n = "rename"
    <3>1. o.force \/ t = Absent
      BY <1>1, <2>2
    <3> QED BY <1>2, <1>3, <2>2, <3>1 DEF AsExpected
  <2>3. CASE n = "ok"
    <3>1. replaced[c] = Absent
      <4>1. ExpectationInPlace(c)
        BY DEF TreeInv
      <4> QED BY <1>2, <1>3, <4>1 DEF ExpectationInPlace
    <3>2. Met(c)' /\ ReportsOwn(c)'
      BY <1>3, <3>1 DEF Met, ReportsOwn
    <3> QED BY <1>3, <2>3, <3>2 DEF AsExpected
  <2> QED BY <2>1, <2>2, <2>3
<1> QED BY <1>2, <1>3, <1>4, <1>5, LookKeeps

(* A mkdir or a delete expects nothing of its target.                      *)
LEMMA LookAtOthersKeeps ==
  ASSUME FileOpsAssumption, TreeInv, NEW c \in Clients,
         LookAtSegment(c) \/ LookAtDoomed(c) \/ ListDoomed(c)
  PROVE  TreeInv'
<1>1. PICK n \in {"error", "ok", "mkdir top", "look", "mkdir", "list", "remove", "rmdir"},
           name \in {"look top", "look", "list"}, op \in {"mkdir", "delete"} :
        /\ Look(c, name, op, n)
        /\ op = "mkdir" => n \in {"error", "ok", "mkdir top", "look", "mkdir"}
        /\ op = "delete" => n \in {"error", "list", "remove", "rmdir"}
  <2>1. CASE LookAtSegment(c)
    BY <2>1 DEF LookAtSegment
  <2>2. CASE LookAtDoomed(c)
    BY <2>2 DEF LookAtDoomed
  <2>3. CASE ListDoomed(c)
    BY <2>3 DEF ListDoomed
  <2> QED BY <2>1, <2>2, <2>3
<1>2. /\ n \in Looks \cup Requests \cup {"ok", "error", "lost"}
      /\ name \in Looks /\ name # "restat" /\ n \notin Renaming
      /\ n \in Looks \cup Requests \/ n \in {"ok", "error"}
  BY DEF Looks, Requests, Renaming
<1>3. /\ pc[c] = name /\ call[c].op = op /\ Goes(c, n)
      /\ UNCHANGED <<posix, tree, call, late, replaced, reported, disturbers>>
      /\ n \in Looks \cup Requests => pc'[c] = n /\ result'[c] = "none"
      /\ n \in {"ok", "error"} => pc'[c] = "done" /\ result'[c] = n
      /\ reported' \in [Clients -> Nodes]
      /\ \A x \in Clients \ {c} : reported'[x] = reported[x]
  <2>1. Look(c, name, op, n) /\ n \in Looks \cup Requests \cup {"ok", "error", "lost"}
    BY <1>1, <1>2
  <2>2. /\ pc[c] = name /\ call[c].op = op /\ call[c] \in Operations /\ Goes(c, n)
        /\ UNCHANGED <<posix, tree, call, late, replaced, reported, disturbers>>
        /\ n \in Looks \cup Requests => pc'[c] = n /\ result'[c] = "none"
        /\ n \in {"ok", "error", "lost"} => pc'[c] = "done" /\ result'[c] = n
        /\ Target(c)' = Target(c) /\ Target(c) \in Nodes
        /\ disturbers[c] = {} => AsExpected(c)
        /\ reported' \in [Clients -> Nodes]
        /\ \A x \in Clients \ {c} : reported'[x] = reported[x]
    BY <1>2, <2>1, LookFacts
  <2> QED BY <2>2
<1>4. InTurn(c, n)
  <2>1. CASE op = "mkdir"
    BY <1>1, <1>2, <1>3, <2>1, StepsOf DEF InTurn
  <2>2. CASE op = "delete"
    BY <1>1, <1>2, <1>3, <2>2, StepsOf DEF InTurn
  <2> QED BY <2>1, <2>2
<1>5. AsExpected(c)'
  <2>1. Met(c)' /\ ReportsOwn(c)'
    BY <1>3 DEF Met, ReportsOwn
  <2>2. pc'[c] \notin {"hash", "open", "fill", "rename", "rename3", "unlink", "again", "restat"}
    BY <1>1, <1>2, <1>3
  <2> QED BY <2>1, <2>2 DEF AsExpected
<1> QED BY <1>2, <1>3, <1>4, <1>5, LookKeeps

(* A look that fails ends the operation.                                   *)
LEMMA LookFailsKeeps ==
  ASSUME FileOpsAssumption, TreeInv, NEW c \in Clients, LookFails(c)
  PROVE  TreeInv'
<1>1. TypeOK
  BY DEF TreeInv, FileInv
<1>2. PICK n \in {"error", "lost"} : Goes(c, n)
  BY DEF LookFails
<1>3. /\ pc[c] \in Looks
      /\ UNCHANGED <<posix, tree, call, late, replaced, reported, disturbers>>
  BY DEF LookFails
<1>4. /\ n \in Looks \cup Requests \cup {"ok", "error", "lost"}
      /\ n \notin Looks \cup {"mkdir top"}
  BY DEF Looks
<1>5. pc'[c] = "done" /\ result'[c] = n
  BY <1>1, <1>2, <1>4, GoesFacts
<1>6. AsExpected(c)'
  BY <1>5 DEF AsExpected
<1>7. InTurn(c, n)
  BY DEF InTurn
<1>8. reported' \in [Clients -> Nodes] /\ \A x \in Clients \ {c} : reported'[x] = reported[x]
  BY <1>1, <1>3 DEF TypeOK
<1> QED BY <1>2, <1>3, <1>4, <1>6, <1>7, <1>8, LookKeeps

(***************************************************************************)
(* The requests.                                                           *)
(***************************************************************************)
(* What holds of a client that waits for the reply to a request.           *)
LEMMA RequestFacts ==
  ASSUME FileOpsAssumption, TreeInv, NEW c \in Clients, pc[c] \in Requests
  PROVE  /\ Active(c) /\ Pending(c, pc[c]) /\ call[c] \in Operations
         /\ pc[c] \in Steps[call[c].op] /\ result[c] = "none"
         /\ posix => pc[c] \notin Renaming \ {"rename"}
         /\ pc[c] \in {"open", "fill", "cleanup"} => call[c].op = "write"
         /\ pc[c] \in Renaming => call[c].op \in {"write", "move"}
         /\ pc[c] \in {"remove", "rmdir"} => call[c].op = "delete"
         /\ pc[c] \in {"mkdir top", "mkdir"} => call[c].op = "mkdir"
         /\ Target(c) \in Nodes
         /\ tree' \in Effects(c, pc[c]) => Served(c, pc[c])
<1>1. /\ TypeOK /\ NoTornFile /\ TreeShape /\ CallInPlace(c) /\ TempInPlace(c)
  BY DEF TreeInv, FileInv
<1>2. pc[c] \notin {"idle", "done"}
  BY DEF Requests
<1>3. Active(c) /\ Pending(c, pc[c]) /\ result[c] = "none"
  BY <1>1, <1>2 DEF Active, Pending, CallInPlace
<1>4. PICK m \in Requests : m = pc[c]
  OBVIOUS
<1>5. Pending(c, m)
  BY <1>3, <1>4
<1>6. /\ call[c] \in Operations /\ m \in Steps[call[c].op]
      /\ posix => m \notin Renaming \ {"rename"}
      /\ m \in {"open", "fill", "cleanup"} => call[c].op = "write"
      /\ m \in Renaming => call[c].op \in {"write", "move"}
      /\ m \in {"remove", "rmdir"} => call[c].op = "delete"
      /\ m \in {"mkdir top", "mkdir"} => call[c].op = "mkdir"
  BY <1>1, <1>5, PendingFacts
<1>7. tree' \in Effects(c, m) => Served(c, m)
  BY <1>1, <1>5, RequestServed
<1>8. Target(c) \in Nodes
  <2>1. call[c].to \in Paths
    BY <1>6, CallFacts
  <2>2. /\ DirOf(tree, call[c].to) \in Dirs \cup {Absent}
        /\ Last(call[c].to) \in Names
    BY <2>1, DirOfFacts, PathFacts
  <2> QED BY <1>1, <2>2 DEF Target, At, TypeOK, Nodes
<1> QED BY <1>3, <1>4, <1>6, <1>7, <1>8

(* A request that is refused leads to another way to do it, to the removal *)
(* of the temporary file, or to the end.                                   *)
LEMMA RefuseKeeps ==
  ASSUME FileOpsAssumption, TreeInv, NEW c \in Clients, Refuse(c)
  PROVE  TreeInv'
<1> DEFINE o == call[c]
           t == Target(c)
<1>1. /\ TypeOK /\ CallInPlace(c) /\ TempInPlace(c) /\ ExpectationInPlace(c)
  BY DEF TreeInv, FileInv
<1>2. PICK n \in {"rename3", "unlink", "cleanup", "error"} :
        /\ Goes(c, n)
        /\ n = "rename3" => pc[c] = "rename" /\ ~posix
        /\ n = "unlink" => pc[c] = "rename3"
        /\ n = "cleanup" => o.op = "write"
  BY DEF Refuse, AfterRefused
<1>3. /\ pc[c] \in Requests
      /\ UNCHANGED <<posix, tree, call, late, replaced, reported, disturbers>>
  BY DEF Refuse
<1>4. /\ n \in Looks \cup Requests \cup {"ok", "error", "lost"}
      /\ n \in Looks \cup Requests \/ n = "error"
      /\ n \notin Looks \cup {"open", "mkdir top", "ok"}
      /\ {"rename", "rename3", "unlink"} \subseteq Renaming /\ "cleanup" \notin Renaming
      /\ "error" \notin Renaming
  BY DEF Looks, Requests, Renaming
<1>5. /\ Active(c) /\ Pending(c, pc[c]) /\ o \in Operations /\ result[c] = "none"
      /\ posix => pc[c] \notin Renaming \ {"rename"}
      /\ pc[c] \in Renaming => o.op \in {"write", "move"}
  BY <1>3, RequestFacts
<1>6. /\ n \in Looks \cup Requests => pc'[c] = n /\ result'[c] = result[c]
      /\ n = "error" => pc'[c] = "done" /\ result'[c] = n
  BY <1>1, <1>2, <1>4, GoesFacts
<1>7. InTurn(c, n)
  BY <1>2, <1>4, <1>5, StepsOf DEF InTurn
<1>8. TempReady(c, n)
  BY <1>1, <1>2, <1>3, <1>4, <1>5 DEF TempReady, TempInPlace
<1>9. TreeServed(c) /\ LateAdded(c, n) /\ Disturbs(c)
  BY <1>1, <1>3, QuietDisturbsNobody DEF TreeServed, LateAdded
<1>10. ASSUME disturbers[c] = {} PROVE AsExpected(c)'
  <2>1. AsExpected(c)
    BY <1>1, <1>5, <1>10 DEF ExpectationInPlace, Active
  <2>2. Target(c)' = t
    BY <1>3 DEF Target
  <2>3. CASE n \in {"error", "cleanup"}
    BY <1>4, <1>5, <1>6, <2>3 DEF AsExpected
  <2>4. CASE n \in {"rename3", "unlink"}
    BY <1>2, <1>3, <1>4, <1>5, <1>6, <2>1, <2>2, <2>4 DEF AsExpected
  <2> QED BY <2>3, <2>4
<1>11. ExpectationInPlace(c)'
  BY <1>2, <1>3, <1>4, <1>5, <1>10, OwnExpectation
<1>12. /\ replaced' \in [Clients -> Nodes] /\ reported' \in [Clients -> Nodes]
       /\ \A x \in Clients \ {c} : replaced'[x] = replaced[x] /\ reported'[x] = reported[x]
  BY <1>1, <1>3 DEF TypeOK
<1> QED BY <1>2, <1>3, <1>4, <1>5, <1>7, <1>8, <1>9, <1>11, <1>12, AdvanceKeeps

(* A request that is lost may have been served, or may be served yet.      *)
LEMMA LoseKeeps ==
  ASSUME FileOpsAssumption, TreeInv, NEW c \in Clients, Lose(c)
  PROVE  TreeInv'
<1>1. TypeOK
  BY DEF TreeInv, FileInv
<1>2. /\ pc[c] \in Requests /\ Disturbs(c)
      /\ UNCHANGED <<posix, call, replaced, reported>>
  BY DEF Lose
<1>3. PICK n \in {"error", "lost"} :
        Goes(c, n) /\ n = (IF pc[c] = "cleanup" THEN "error" ELSE "lost")
  BY DEF Lose
<1>4. Active(c) /\ (tree' \in Effects(c, pc[c]) => Served(c, pc[c]))
  BY <1>2, RequestFacts
<1>5. LateAdded(c, n) /\ TreeServed(c)
  BY <1>2, <1>3, <1>4 DEF Lose, LateAdded, TreeServed
<1>6. /\ n \in Looks \cup Requests \cup {"ok", "error", "lost"}
      /\ n \notin Looks \cup {"open", "mkdir top"} \cup Renaming
  BY DEF Looks, Renaming
<1>7. pc'[c] = "done" /\ result'[c] = n
  BY <1>1, <1>3, <1>6, GoesFacts
<1>8. InTurn(c, n) /\ TempReady(c, n)
  BY <1>6 DEF InTurn, TempReady
<1>9. AsExpected(c)'
  BY <1>7 DEF AsExpected
<1>10. disturbers'[c] = disturbers[c]
  BY <1>1, <1>2, DisturbsFacts
<1>11. ExpectationInPlace(c)'
  BY <1>3, <1>4, <1>6, <1>9, <1>10, OwnExpectation
<1>12. /\ replaced' \in [Clients -> Nodes] /\ reported' \in [Clients -> Nodes]
       /\ \A x \in Clients \ {c} : replaced'[x] = replaced[x] /\ reported'[x] = reported[x]
  BY <1>1, <1>2 DEF TypeOK
<1> QED BY <1>2, <1>3, <1>4, <1>5, <1>6, <1>8, <1>11, <1>12, AdvanceKeeps

(* What a write or a move expected when it acts is met when it has acted.  *)
LEMMA MetWhenActed ==
  ASSUME FileOpsAssumption, NEW c \in Clients, AsExpected(c),
         call[c].op \in {"write", "move"}, pc[c] \in {"rename", "rename3", "unlink"},
         replaced'[c] = Target(c), call' = call
  PROVE  Met(c)'
<1>1. Absent \notin Subs /\ \A f \in Files : f \notin Subs \cup {Absent}
  BY DEF FileOpsAssumption, Dirs
<1>2. CASE call[c].op = "write"
  <2>1. \/ call[c].force \/ (call[c].stamp = Absent /\ call[c].hash = Absent)
        \/ /\ Target(c) \in Files /\ (call[c].stamp # Absent => Target(c).stamp = call[c].stamp)
           /\ (call[c].hash # Absent => Target(c).by = call[c].hash)
    BY <1>2 DEF AsExpected
  <2> QED BY <1>1, <1>2, <2>1 DEF Met
<1>3. CASE call[c].op = "move"
  <2>1. call[c].force \/ Target(c) = Absent
    BY <1>3 DEF AsExpected
  <2> QED BY <1>3, <2>1 DEF Met
<1> QED BY <1>2, <1>3

(* A request that is served leads to the next one, or to success.          *)
LEMMA ServeKeeps ==
  ASSUME FileOpsAssumption, TreeInv, NEW c \in Clients, Serve(c)
  PROVE  TreeInv'
<1> DEFINE o == call[c]
           t == Target(c)
<1>1. /\ TypeOK /\ CallInPlace(c) /\ TempInPlace(c) /\ ExpectationInPlace(c)
  BY DEF TreeInv, FileInv
<1>2. /\ pc[c] \in Requests /\ tree' \in Effects(c, pc[c]) /\ Disturbs(c)
      /\ UNCHANGED <<posix, call, late, reported>>
      /\ replaced' = [replaced EXCEPT ![c] =
           IF pc[c] \in {"rename", "rename3", "unlink"} THEN t ELSE replaced[c]]
  BY DEF Serve
<1>3. /\ Active(c) /\ Pending(c, pc[c]) /\ o \in Operations /\ result[c] = "none"
      /\ posix => pc[c] \notin Renaming \ {"rename"}
      /\ pc[c] \in {"open", "fill", "cleanup"} => o.op = "write"
      /\ pc[c] \in Renaming => o.op \in {"write", "move"}
      /\ pc[c] \in {"remove", "rmdir"} => o.op = "delete"
      /\ pc[c] \in {"mkdir top", "mkdir"} => o.op = "mkdir"
      /\ t \in Nodes /\ Served(c, pc[c])
  BY <1>2, RequestFacts
<1>4. PICK n \in {"fill", "rename", "restat", "ok", "again", "look", "error"} :
        /\ Goes(c, n)
        /\ n = "fill" => pc[c] = "open"
        /\ n = "rename" => pc[c] = "fill"
        /\ n = "restat" => pc[c] \in {"rename", "rename3", "again"} /\ o.op = "write"
        /\ n = "again" => pc[c] = "unlink"
        /\ n = "look" => pc[c] = "mkdir top"
        /\ n = "ok" => \/ pc[c] \in {"rename", "rename3", "again"} /\ o.op = "move"
                       \/ pc[c] \in {"remove", "rmdir", "mkdir"}
  <2>1. pc[c] \in {"open", "fill", "rename", "rename3", "again", "unlink", "remove",
                   "cleanup", "rmdir", "mkdir top", "mkdir"}
    BY <1>2 DEF Requests
  <2>2. pc[c] \in {"rename", "rename3", "again"} => o.op \in {"write", "move"}
    BY <1>3 DEF Renaming
  <2> QED BY <2>1, <2>2 DEF Serve, AfterServed
<1>5. /\ n \in Looks \cup Requests \cup {"ok", "error", "lost"}
      /\ n \in Looks \cup Requests \/ n \in {"ok", "error"}
      /\ n \notin Looks \cup {"open", "mkdir top"} \/ n \in {"restat", "look"}
      /\ n \notin Renaming \/ n \in {"rename", "again"}
      /\ Renaming = {"rename", "rename3", "unlink", "again"}
  BY DEF Looks, Requests, Renaming
<1>6. /\ n \in Looks \cup Requests => pc'[c] = n /\ result'[c] = result[c]
      /\ n \in {"ok", "error"} => pc'[c] = "done" /\ result'[c] = n
  BY <1>1, <1>4, <1>5, GoesFacts
<1>7. /\ replaced' \in [Clients -> Nodes] /\ reported' \in [Clients -> Nodes]
      /\ \A x \in Clients \ {c} : replaced'[x] = replaced[x] /\ reported'[x] = reported[x]
      /\ pc[c] \in {"rename", "rename3", "unlink"} => replaced'[c] = t
      /\ pc[c] \notin {"rename", "rename3", "unlink"} => replaced'[c] = replaced[c]
  BY <1>1, <1>2, <1>3 DEF TypeOK
<1>8. InTurn(c, n)
  BY <1>3, <1>4, <1>5, StepsOf DEF InTurn
<1>9. TempReady(c, n)
  <2>1. ASSUME o.op = "write", n \in Looks \cup {"open"}
        PROVE  \A d \in Dirs : tree'[d][c] = Absent
    <3>1. pc[c] \in Renaming \ {"unlink"}
      BY <1>3, <1>4, <1>5, <2>1
    <3> QED BY <1>3, <3>1 DEF Served
  <2>2. ASSUME o.op = "write", n \in Renaming
        PROVE  \A d \in Dirs : tree'[d][c] # Absent => tree'[d][c].whole
    <3>1. pc[c] \in Renaming \cup {"fill"}
      BY <1>4, <1>5, <2>2
    <3> QED BY <1>3, <3>1 DEF Served
  <2> QED BY <2>1, <2>2 DEF TempReady
<1>10. TreeServed(c) /\ LateAdded(c, n)
  BY <1>2, <1>3 DEF TreeServed, LateAdded
<1>11. n = "ok" => \A d \in Dirs : tree'[d][c] = Absent
  <2> SUFFICES ASSUME n = "ok" PROVE \A d \in Dirs : tree'[d][c] = Absent
    OBVIOUS
  <2>1. o.op # "write" /\ pc[c] # "open" /\ pc[c] # "idle"
    BY <1>3, <1>4 DEF Active
  <2>2. \A d \in Dirs : tree[d][c] = Absent
    BY <1>1, <2>1 DEF TempInPlace
  <2> QED BY <1>3, <2>1, <2>2 DEF Served
<1>12. pc[c] \in {"open", "fill"} => Target(c)' = t
  <2> SUFFICES ASSUME pc[c] \in {"open", "fill"} PROVE Target(c)' = t
    OBVIOUS
  <2>1. \A d \in Dirs : \A l \in Names : tree'[d][l] = tree[d][l]
    BY <1>3 DEF Served
  <2>2. o.to \in Paths
    BY <1>3, CallFacts
  <2>3. At(tree', o.to) = At(tree, o.to)
    BY <2>1, <2>2, SameNames
  <2> QED BY <1>2, <2>3 DEF Target
<1>13. ASSUME disturbers[c] = {} PROVE AsExpected(c)'
  <2>1. AsExpected(c)
    BY <1>1, <1>3, <1>13 DEF ExpectationInPlace, Active
  <2>2. call' = call
    BY <1>2
  <2>3. pc[c] \in Renaming => \/ pc[c] \in {"rename", "rename3", "unlink"} /\ Met(c)'
                              \/ pc[c] = "again" /\ Met(c)'
    <3>1. CASE pc[c] \in {"rename", "rename3", "unlink"}
      BY <1>3, <1>5, <1>7, <2>1, <2>2, <3>1, MetWhenActed
    <3>2. CASE pc[c] = "again"
      <4>1. Met(c) /\ replaced'[c] = replaced[c]
        BY <1>7, <2>1, <3>2 DEF AsExpected
      <4> QED BY <2>2, <3>2, <4>1 DEF Met
    <3> QED BY <1>5, <3>1, <3>2
  <2>4. CASE n \in {"fill", "rename"}
    BY <1>3, <1>4, <1>5, <1>6, <1>12, <2>1, <2>2, <2>4 DEF AsExpected
  <2>5. CASE n = "again"
    BY <1>3, <1>4, <1>5, <1>6, <2>3, <2>5 DEF AsExpected
  <2>6. CASE n = "restat"
    <3>1. Target(c)' \in Files /\ Target(c)'.by = c
      BY <1>3, <1>4, <1>5, <2>2, <2>6 DEF Served, Target
    <3>2. Met(c)'
      BY <1>4, <1>5, <2>3, <2>6
    <3> QED BY <1>3, <1>5, <1>6, <2>6, <3>1, <3>2 DEF AsExpected
  <2>7. CASE n = "ok"
    <3>1. o.op # "write"
      BY <1>3, <1>4, <2>7
    <3>2. Met(c)'
      BY <1>3, <1>4, <1>5, <2>2, <2>3, <2>7 DEF Met
    <3>3. ReportsOwn(c)'
      BY <2>2, <3>1 DEF ReportsOwn
    <3> QED BY <1>6, <2>7, <3>2, <3>3 DEF AsExpected
  <2>8. CASE n \in {"look", "error"}
    BY <1>3, <1>5, <1>6, <2>8 DEF AsExpected
  <2> QED BY <2>4, <2>5, <2>6, <2>7, <2>8
<1>14. disturbers'[c] = disturbers[c]
  BY <1>1, <1>2, DisturbsFacts
<1>15. n \in (Looks \ {"restat"}) \cup {"mkdir top"} => replaced'[c] = Absent
  BY <1>1, <1>4, <1>5, <1>7 DEF ExpectationInPlace
<1>16. ExpectationInPlace(c)'
  BY <1>3, <1>4, <1>5, <1>13, <1>14, <1>15, OwnExpectation
<1> QED BY <1>2, <1>3, <1>4, <1>5, <1>7, <1>8, <1>9, <1>10, <1>11, <1>16, AdvanceKeeps

(* A request that was lost is served late, when its client is done.        *)
LEMMA LateEffectKeeps ==
  ASSUME FileOpsAssumption, TreeInv, LateEffect
  PROVE  TreeInv'
<1>1. /\ TypeOK /\ NoTornFile /\ NoLeftover /\ OneAtATime /\ TreeShape
      /\ \A x \in Clients : CallInPlace(x) /\ TempInPlace(x) /\ ExpectationInPlace(x)
  BY DEF TreeInv, FileInv
<1>2. PICK c \in Clients, m \in Requests :
        /\ <<c, m>> \in late /\ late' = late \ {<<c, m>>}
        /\ tree' = tree \/ tree' \in Effects(c, m)
        /\ Disturbs(c)
        /\ UNCHANGED <<posix, sftpLock, call, pc, result, replaced, reported>>
  <2>1. PICK r \in late :
          /\ late' = late \ {r}
          /\ tree' = tree \/ tree' \in Effects(r[1], r[2])
          /\ Disturbs(r[1])
          /\ UNCHANGED <<posix, sftpLock, call, pc, result, replaced, reported>>
    BY DEF LateEffect
  <2>2. PICK c \in Clients, m \in Requests : r = <<c, m>>
    BY <1>1 DEF TypeOK
  <2>3. r[1] = c /\ r[2] = m
    BY <2>2
  <2> QED BY <2>1, <2>2, <2>3
<1>3. /\ pc[c] = "done" /\ result[c] \in {"lost", "error"}
      /\ result[c] = "lost" \/ m = "cleanup"
      /\ \A l \in Requests : <<c, l>> \in late => l = m
      /\ Pending(c, m) /\ pc[c] # "idle"
  BY <1>1, <1>2 DEF CallInPlace, Pending
<1>4. tree' = tree \/ Served(c, m)
  BY <1>1, <1>2, <1>3, RequestServed
<1>5. /\ disturbers' \in [Clients -> SUBSET Clients]
      /\ disturbers'[c] = disturbers[c]
      /\ \A x \in Clients :
           \/ /\ disturbers'[x] = disturbers[x]
              /\ Active(x) /\ x # c => At(tree', call[x].to) = At(tree, call[x].to)
           \/ /\ disturbers'[x] = disturbers[x] \cup {c}
              /\ Active(x) /\ x # c /\ At(tree', call[x].to) # At(tree, call[x].to)
  BY <1>1, <1>2, DisturbsFacts
<1>6. TypeOK'
  <2>1. Typed(tree')
    BY <1>1, <1>4 DEF Served, Typed, TypeOK
  <2>2. late' \subseteq Clients \X Requests
    BY <1>1, <1>2 DEF TypeOK
  <2> QED BY <1>1, <1>2, <1>5, <2>1, <2>2 DEF TypeOK, Typed
<1>7. NoTornFile' /\ TreeShape'
  <2>1. CASE tree' = tree
    BY <1>1, <2>1 DEF NoTornFile, TreeShape, Attached, Empty
  <2>2. CASE Served(c, m)
    BY <2>2 DEF Served
  <2> QED BY <1>4, <2>1, <2>2
<1>8. \A x \in Clients \ {c} : \A d \in Dirs : tree'[d][x] = tree[d][x]
  BY <1>4 DEF Served
<1>9. NoLeftover' /\ OneAtATime'
  <2>1. NoLeftover'
    BY <1>1, <1>2, <1>3, <1>8 DEF NoLeftover
  <2>2. OneAtATime'
    BY <1>1, <1>2 DEF OneAtATime, Active
  <2> QED BY <2>1, <2>2
<1>10. ASSUME NEW x \in Clients PROVE CallInPlace(x)'
  <2>1. CallInPlace(x) /\ \A l \in Requests : <<x, l>> \in late' => <<x, l>> \in late
    BY <1>1, <1>2
  <2> QED BY <1>2, <2>1 DEF CallInPlace
<1>11. ASSUME NEW x \in Clients PROVE TempInPlace(x)'
  <2>1. Renaming \subseteq Requests /\ "open" \in Requests
    BY DEF Renaming, Requests
  <2>2. TempInPlace(x)
    BY <1>1
  <2>3. CASE x # c
    <3>1. \A l \in Requests : Pending(x, l)' => Pending(x, l)
      BY <1>2 DEF Pending
    <3>2. \A d \in Dirs : tree'[d][x] = tree[d][x]
      BY <1>8, <2>3
    <3> QED BY <1>2, <2>1, <2>2, <3>1, <3>2 DEF TempInPlace
  <2>4. CASE x = c
    <3>1. \A l \in Requests : ~Pending(c, l)'
      <4>1. "done" \notin Requests
        BY DEF Requests
      <4> QED BY <1>2, <1>3, <4>1 DEF Pending
    <3>2. pc'[c] \notin Looks \cup {"idle"}
      BY <1>2, <1>3 DEF Looks
    <3>3. \A d \in Dirs : tree'[d][c] = Absent \/ (tree'[d][c] \in Files /\ tree'[d][c].by = c)
      BY <1>4, <2>2, <2>4 DEF Served, TempInPlace
    <3>4. \A d, e \in Dirs : tree'[d][c] # Absent /\ tree'[e][c] # Absent => d = e
      BY <1>4, <2>2, <2>4 DEF Served, TempInPlace
    <3>5. call[c].op # "write" => \A d \in Dirs : tree'[d][c] = Absent
      <4> SUFFICES ASSUME call[c].op # "write" PROVE \A d \in Dirs : tree'[d][c] = Absent
        OBVIOUS
      <4>1. m # "open"
        BY <1>1, <1>3, <2>1, PendingFacts
      <4>2. \A d \in Dirs : tree[d][c] = Absent
        BY <1>3, <2>2, <2>4 DEF TempInPlace
      <4> QED BY <1>4, <4>1, <4>2 DEF Served
    <3> QED BY <1>2, <2>1, <2>4, <3>1, <3>2, <3>3, <3>4, <3>5 DEF TempInPlace
  <2> QED BY <2>3, <2>4
<1>12. ASSUME NEW x \in Clients, x # c PROVE ExpectationInPlace(x)'
  <2>1. CASE Active(x) /\ At(tree', call[x].to) # At(tree, call[x].to)
    <3>1. m # "cleanup"
      <4> SUFFICES ASSUME m = "cleanup" PROVE FALSE
        OBVIOUS
      <4>1. \A d \in Dirs : \A l \in Names : tree'[d][l] = tree[d][l]
        BY <1>4 DEF Served
      <4>2. call[x].to \in Paths
        <5>1. call[x] \in Operations
          BY <1>1, <2>1 DEF Active, CallInPlace
        <5> QED BY <5>1, CallFacts
      <4> QED BY <2>1, <4>1, <4>2, SameNames
    <3>2. disturbers'[x] = disturbers[x] \cup {c} /\ result'[c] = "lost"
      BY <1>2, <1>3, <1>5, <1>12, <2>1, <3>1
    <3>3. pc[x] = "done" => result[x] # "none"
      BY <1>1 DEF CallInPlace
    <3> QED BY <1>1, <1>2, <1>12, <3>2, <3>3, OthersExpect
  <2>2. CASE ~(Active(x) /\ At(tree', call[x].to) # At(tree, call[x].to))
    <3>1. /\ disturbers'[x] = disturbers[x]
          /\ Active(x) => At(tree', call[x].to) = At(tree, call[x].to)
      BY <1>5, <1>12, <2>2
    <3>2. pc[x] = "done" => result[x] # "none"
      BY <1>1 DEF CallInPlace
    <3> QED BY <1>1, <1>2, <1>12, <3>1, <3>2, OthersExpect
  <2> QED BY <2>1, <2>2
<1>13. ExpectationInPlace(c)'
  <2>1. AsExpected(c)'
    BY <1>2, <1>3 DEF AsExpected
  <2>2. pc'[c] \notin Looks \cup {"idle", "mkdir top"}
    BY <1>2, <1>3 DEF Looks
  <2>3. ExpectationInPlace(c)
    BY <1>1
  <2> QED BY <1>2, <1>5, <2>1, <2>2, <2>3 DEF ExpectationInPlace
<1> QED BY <1>6, <1>7, <1>9, <1>10, <1>11, <1>12, <1>13 DEF TreeInv, FileInv

(* What is said of the tree alone holds as long as the tree is the same.   *)
LEMMA TreeKept ==
  ASSUME NoTornFile, TreeShape, tree' = tree
  PROVE  NoTornFile' /\ TreeShape'
<1>1. NoTornFile'
  BY DEF NoTornFile
<1>2. TreeShape'
  BY DEF TreeShape, Attached, Empty
<1> QED BY <1>1, <1>2

(* A client that does not move keeps its temporary file.                   *)
LEMMA TempKept ==
  ASSUME NEW x \in Clients, TempInPlace(x), tree' = tree, late' = late,
         pc'[x] = pc[x], call'[x] = call[x]
  PROVE  TempInPlace(x)'
<1>1. \A m : Pending(x, m)' <=> Pending(x, m)
  BY DEF Pending
<1> QED BY <1>1 DEF TempInPlace

(* A call starts at its first look, and takes the lock of the broker if it *)
(* comes from one of its clients.                                          *)
LEMMA StartKeeps ==
  ASSUME FileOpsAssumption, TreeInv, NEW c \in Clients, Start(c)
  PROVE  TreeInv'
<1>1. /\ TypeOK /\ NoTornFile /\ NoLeftover /\ OneAtATime /\ TreeShape
      /\ \A x \in Clients : CallInPlace(x) /\ TempInPlace(x) /\ ExpectationInPlace(x)
  BY DEF TreeInv, FileInv
<1>2. PICK o \in Operations, n \in {"look top", "look"} :
        /\ call' = [call EXCEPT ![c] = o] /\ pc' = [pc EXCEPT ![c] = n]
        /\ n = "look top" => o.op = "mkdir"
  BY DEF Start
<1>3. /\ pc[c] = "idle" /\ MayStart(c)
      /\ sftpLock' = IF c \in Brokered THEN c ELSE sftpLock
      /\ UNCHANGED <<posix, tree, result, late, replaced, reported, disturbers>>
  BY DEF Start
<1>4. /\ pc'[c] = n /\ call'[c] = o /\ result'[c] = "none"
      /\ \A x \in Clients \ {c} : pc'[x] = pc[x] /\ call'[x] = call[x]
      /\ \A m \in Requests : <<c, m>> \notin late'
      /\ pc' \in [Clients -> Looks \cup Requests \cup {"idle", "done"}]
      /\ call' \in [Clients -> Operations \cup {Absent}]
  BY <1>1, <1>2, <1>3 DEF TypeOK, CallInPlace, Looks
<1>5. TypeOK'
  <2>1. sftpLock' \in Brokered \cup {Absent}
    BY <1>1, <1>3 DEF TypeOK
  <2> QED BY <1>1, <1>3, <1>4, <2>1 DEF TypeOK
<1>6. NoTornFile' /\ NoLeftover' /\ TreeShape'
  <2>1. NoTornFile' /\ TreeShape'
    BY <1>1, <1>3, TreeKept
  <2>2. NoLeftover'
    BY <1>1, <1>3 DEF NoLeftover
  <2> QED BY <2>1, <2>2
<1>7. OneAtATime'
  <2>1. /\ \A b \in Brokered : b \in Clients /\ b # Absent /\ b \notin Outsiders
        /\ \A b \in Clients \ {c} : Active(b)' <=> Active(b)
        /\ Active(c)'
    BY <1>4 DEF FileOpsAssumption, Clients, Active
  <2>2. CASE c \in Brokered
    <3>1. sftpLock = Absent /\ sftpLock' = c
      BY <1>3, <2>1, <2>2 DEF MayStart
    <3> QED BY <1>1, <2>1, <2>2, <3>1 DEF OneAtATime
  <2>3. CASE c \notin Brokered
    <3>1. sftpLock' = sftpLock
      BY <1>3, <2>3
    <3> QED BY <1>1, <2>1, <2>3, <3>1 DEF OneAtATime
  <2> QED BY <2>2, <2>3
<1>8. ASSUME NEW x \in Clients \ {c} PROVE CallInPlace(x)' /\ TempInPlace(x)'
  <2>1. CallInPlace(x)'
    BY <1>1, <1>3, <1>4 DEF CallInPlace
  <2>2. TempInPlace(x)'
    BY <1>1, <1>3, <1>4, TempKept
  <2> QED BY <2>1, <2>2
<1>9. CallInPlace(c)'
  <2>1. n \in Steps[o.op]
    <3>1. o.op \in {"write", "move", "mkdir", "delete"}
      BY CallFacts
    <3> QED BY <1>2, <3>1, StepsOf
  <2>2. n # "done" /\ n \notin Renaming
    BY DEF Renaming
  <2> QED BY <1>4, <2>1, <2>2 DEF CallInPlace
<1>10. TempInPlace(c)'
  <2>1. \A d \in Dirs : tree'[d][c] = Absent
    BY <1>1, <1>3 DEF TempInPlace
  <2> QED BY <2>1 DEF TempInPlace
<1>11. ASSUME NEW x \in Clients \ {c} PROVE ExpectationInPlace(x)'
  BY <1>1, <1>3, <1>4, OthersExpect DEF CallInPlace
<1>12. ExpectationInPlace(c)'
  <2>1. AsExpected(c)'
    BY <1>4 DEF AsExpected
  <2> QED BY <1>1, <1>3, <1>4, <2>1 DEF ExpectationInPlace
<1> QED BY <1>5, <1>6, <1>7, <1>8, <1>9, <1>10, <1>11, <1>12 DEF TreeInv, FileInv

(***************************************************************************)
(* The theorems.                                                           *)
(***************************************************************************)
(* At the start the tree has whole files, no directory in two places, and  *)
(* nobody has called anything.                                             *)
LEMMA InitTree ==
  ASSUME FileOpsAssumption, Init
  PROVE  TreeInv
<1>1. PICK top \in [Names -> [by : {Old}, stamp : Stamps, whole : {TRUE}]
                              \cup Subs \cup {Absent}] :
        /\ \A m, n \in Names : top[m] \in Subs /\ top[m] = top[n] => m = n
        /\ tree = [d \in Dirs |->
                     [n \in Names \cup Clients |->
                        IF d = Root /\ n \in Names THEN top[n] ELSE Absent]]
  BY DEF Init
<1>2. /\ \A n \in Names : top[n] \in Nodes /\ (top[n] \in Subs \cup {Absent} \/ top[n].whole)
      /\ Root \in Dirs /\ Root \notin Subs /\ Absent \notin Subs /\ Names \cap Clients = {}
  BY DEF Nodes, Files, FileOpsAssumption, Dirs
<1>3. /\ \A n \in Names : tree[Root][n] = top[n]
      /\ \A d \in Dirs : \A c \in Clients : tree[d][c] = Absent
      /\ \A d \in Subs : tree[d] = Empty
      /\ \A d \in Subs : \A n \in Names : tree[d][n] = Absent
      /\ tree \in [Dirs -> [Names \cup Clients -> Nodes]]
  BY <1>1, <1>2 DEF Dirs, Empty, Nodes
<1>4. /\ posix \in BOOLEAN /\ sftpLock = Absent /\ late = {}
      /\ call = [c \in Clients |-> Absent] /\ pc = [c \in Clients |-> "idle"]
      /\ result = [c \in Clients |-> "none"]
      /\ replaced = [c \in Clients |-> Absent] /\ reported = [c \in Clients |-> Absent]
      /\ disturbers = [c \in Clients |-> {}]
  BY DEF Init, FileOpsAssumption
<1>5. TypeOK
  BY <1>3, <1>4 DEF TypeOK, Nodes
<1>6. NoTornFile /\ TreeShape
  BY <1>1, <1>2, <1>3 DEF NoTornFile, TreeShape, Dirs
<1>7. NoLeftover /\ OneAtATime
  BY <1>3, <1>4 DEF NoLeftover, OneAtATime, Active, Clients, FileOpsAssumption
<1>8. ASSUME NEW c \in Clients
      PROVE  CallInPlace(c) /\ TempInPlace(c) /\ ExpectationInPlace(c)
  <2>1. CallInPlace(c)
    BY <1>4 DEF CallInPlace, Renaming
  <2>2. TempInPlace(c)
    BY <1>3, <1>4 DEF TempInPlace
  <2>3. ExpectationInPlace(c)
    BY <1>4 DEF ExpectationInPlace
  <2> QED BY <2>1, <2>2, <2>3
<1> QED BY <1>5, <1>6, <1>7, <1>8 DEF TreeInv, FileInv

(* Every step keeps the invariant.                                         *)
LEMMA NextTree ==
  ASSUME FileOpsAssumption, TreeInv, [Next]_vars
  PROVE  TreeInv'
<1>1. CASE LateEffect
  BY <1>1, LateEffectKeeps
<1>2. ASSUME NEW c \in Clients, Step(c) PROVE TreeInv'
  <2>1. CASE Start(c)
    BY <2>1, StartKeeps
  <2>2. CASE LookAtCurrent(c)
    BY <2>2, LookAtCurrentKeeps
  <2>3. CASE Sha256(c)
    BY <2>3, Sha256Keeps
  <2>4. CASE Restat(c)
    BY <2>4, RestatKeeps
  <2>5. CASE LookAtSource(c) \/ LookAtDestination(c)
    BY <2>5, LookAtMoveKeeps
  <2>6. CASE LookAtSegment(c) \/ LookAtDoomed(c) \/ ListDoomed(c)
    BY <2>6, LookAtOthersKeeps
  <2>7. CASE LookFails(c)
    BY <2>7, LookFailsKeeps
  <2>8. CASE Serve(c)
    BY <2>8, ServeKeeps
  <2>9. CASE Refuse(c)
    BY <2>9, RefuseKeeps
  <2>10. CASE Lose(c)
    BY <2>10, LoseKeeps
  <2> QED BY <1>2, <2>1, <2>2, <2>3, <2>4, <2>5, <2>6, <2>7, <2>8, <2>9, <2>10 DEF Step
<1>3. CASE UNCHANGED vars
  <2>1. UNCHANGED <<posix, tree, sftpLock, call, pc, result, late, replaced,
                    reported, disturbers>>
    BY <1>3 DEF vars
  <2>2. FileInv'
    <3>1. TypeOK /\ NoTornFile /\ NoLeftover /\ OneAtATime /\ TreeShape
      BY DEF TreeInv, FileInv
    <3>2. TypeOK'
      BY <2>1, <3>1 DEF TypeOK
    <3>3. NoTornFile' /\ TreeShape'
      BY <2>1, <3>1, TreeKept
    <3>4. NoLeftover' /\ OneAtATime'
      BY <2>1, <3>1 DEF NoLeftover, OneAtATime, Active
    <3> QED BY <3>2, <3>3, <3>4 DEF FileInv
  <2>3. ASSUME NEW c \in Clients
        PROVE  CallInPlace(c)' /\ TempInPlace(c)' /\ ExpectationInPlace(c)'
    <3>1. CallInPlace(c) /\ TempInPlace(c) /\ ExpectationInPlace(c)
      BY DEF TreeInv
    <3>2. CallInPlace(c)' /\ TempInPlace(c)'
      BY <2>1, <3>1 DEF CallInPlace, TempInPlace, Pending
    <3>3. AsExpected(c)' <=> AsExpected(c)
      BY <2>1 DEF AsExpected, Met, ReportsOwn, Target
    <3>4. ExpectationInPlace(c)'
      BY <2>1, <3>1, <3>3 DEF ExpectationInPlace
    <3> QED BY <3>2, <3>4
  <2> QED BY <2>2, <2>3 DEF TreeInv
<1> QED BY <1>1, <1>2, <1>3 DEF Next

(* In every behaviour the tree, the calls, the temporary files and what     *)
(* each operation still expects are as TreeInv says.                       *)
THEOREM TreeInvariance == Spec => []TreeInv
<1>1. Init => TreeInv
  BY FileOpsAssumption, InitTree
<1>2. TreeInv /\ [Next]_vars => TreeInv'
  BY FileOpsAssumption, NextTree
<1> QED BY <1>1, <1>2, PTL DEF Spec

(* No name shows a partly written file, no operation that reports success  *)
(* leaves a temporary file, the broker serves one client at a time, and the *)
(* directories form a forest.                                              *)
THEOREM FilesStayWhole == Spec => []FileInv
<1>1. TreeInv => FileInv
  BY DEF TreeInv
<1> QED BY <1>1, TreeInvariance, PTL

(* An operation that succeeds although what it replaced was not what its   *)
(* caller expected, or that reports the version of another, met a client in *)
(* direct mode, or one whose session was lost.                             *)
THEOREM ExpectationsAreHonoured == Spec => []HonoursExpectation
<1>1. TreeInv => HonoursExpectation
  <2> SUFFICES ASSUME TreeInv, NEW c \in Clients, result[c] = "ok",
                      ~(Met(c) /\ ReportsOwn(c))
               PROVE  \E x \in disturbers[c] : {c, x} \cap Outsiders # {} \/ result[x] = "lost"
    BY DEF HonoursExpectation
  <2>1. CallInPlace(c) /\ ExpectationInPlace(c)
    BY DEF TreeInv
  <2>2. pc[c] # "idle"
    BY <2>1 DEF CallInPlace
  <2>3. disturbers[c] # {}
    BY <2>1, <2>2 DEF ExpectationInPlace, AsExpected
  <2> QED BY <2>1, <2>3 DEF ExpectationInPlace
<1> QED BY <1>1, TreeInvariance, PTL

(* With posix-rename, no step of a write makes a file at its target        *)
(* disappear: it is there after every step, the old one or the new.        *)
THEOREM TargetsAreKept == Spec => ReplaceKeepsTarget
<1>1. ASSUME TreeInv, [Next]_vars
      PROVE  [\A c \in Clients :
                 /\ posix /\ Active(c) /\ pc[c] # pc'[c] /\ call[c].op = "write"
                 /\ Target(c) # Absent
                 => At(tree', call[c].to) # Absent]_vars
  <2> SUFFICES ASSUME NEW c \in Clients, posix, Active(c), pc[c] # pc'[c],
                      call[c].op = "write", Target(c) # Absent
               PROVE  At(tree', call[c].to) # Absent
    OBVIOUS
  <2>1. CASE tree' = tree
    BY <2>1 DEF Target
  <2>2. ASSUME tree' # tree PROVE pc[c] \in Requests /\ tree' \in Effects(c, pc[c])
    <3>1. ~LateEffect
      BY DEF LateEffect
    <3>2. PICK x \in Clients : Step(x)
      BY <1>1, <2>2, <3>1 DEF Next, vars
    <3>3. Serve(x) \/ Lose(x)
      BY <2>2, <3>2
      DEF Step, Start, LookAtCurrent, Sha256, Restat, LookAtSource,
          LookAtDestination, LookAtSegment, LookAtDoomed, ListDoomed,
          LookFails, Refuse, Look
    <3>4. pc[x] \in Requests /\ tree' \in Effects(x, pc[x])
      BY <2>2, <3>3 DEF Serve, Lose
    <3>5. x = c
      <4>1. TypeOK
        BY <1>1 DEF TreeInv, FileInv
      <4>2. \E next : Goes(x, next)
        BY <3>3 DEF Serve, Lose
      <4> QED BY <4>1, <4>2 DEF Goes, TypeOK
    <3> QED BY <3>4, <3>5
  <2>3. CASE tree' # tree
    <3>1. /\ call[c] \in Operations /\ Served(c, pc[c])
          /\ posix => pc[c] \notin Renaming \ {"rename"}
          /\ pc[c] \in {"remove", "rmdir"} => call[c].op = "delete"
          /\ pc[c] \in {"mkdir top", "mkdir"} => call[c].op = "mkdir"
      BY <1>1, <2>2, <2>3, FileOpsAssumption, RequestFacts
    <3>2. pc[c] \in {"open", "fill", "rename", "cleanup"}
      BY <2>2, <2>3, <3>1 DEF Requests, Renaming
    <3>3. CASE pc[c] \in {"open", "fill", "cleanup"}
      <4>1. \A d \in Dirs : \A n \in Names : tree'[d][n] = tree[d][n]
        BY <3>1, <3>3 DEF Served
      <4>2. call[c].to \in Paths
        BY <3>1, FileOpsAssumption, CallFacts
      <4> QED BY <4>1, <4>2, FileOpsAssumption, SameNames DEF Target
    <3>4. CASE pc[c] = "rename"
      <4>1. At(tree', call[c].to) \in Files
        BY <3>1, <3>4 DEF Served, Renaming
      <4> QED BY <4>1, FileOpsAssumption DEF FileOpsAssumption
    <3> QED BY <3>2, <3>3, <3>4
  <2> QED BY <2>1, <2>3
<1> QED BY <1>1, TreeInvariance, PTL DEF Spec, ReplaceKeepsTarget
=============================================================================
