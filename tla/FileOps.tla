------------------------------- MODULE FileOps -------------------------------
(***************************************************************************)
(* The file operations that change the remote tree (sshbridge/ops.py):     *)
(* write_file, move, mkdir and delete, each a sequence of SFTP requests    *)
(* (sftp_client.py) that look first and act later, with the fall-back of   *)
(* rename for servers without posix-rename.                                *)
(*                                                                         *)
(* The broker serves its clients one operation at a time, under sftp_lock; *)
(* a client in direct mode, and any other program on the server, does not  *)
(* wait for that lock.  Every request may be refused, or be lost with its  *)
(* session, and a lost one may still take effect later.                    *)
(*                                                                         *)
(* Each client calls one operation.  A path is one name, or two, and each  *)
(* request resolves it anew.  A file is what wrote it, a stamp (mtime and  *)
(* size), and whether it is whole.  Contents, attributes, the sandbox      *)
(* check and symbolic links are left out.  The look at a parent directory  *)
(* and the look at the entry that follows it are one step: they read the   *)
(* same tree, and a parent lost in between fails what comes next.          *)
(***************************************************************************)
EXTENDS Integers, SequencesExt

CONSTANTS
  Brokered,   \* clients of the broker
  Outsiders,  \* clients in direct mode
  Names,      \* names in a directory
  Root, Subs, \* the root directory, and the directories that may be made
  Stamps,     \* (mtime, size) pairs
  Old,        \* what wrote the files that are there at the start
  Absent,     \* no entry, nobody, nothing expected
  Servers,    \* whether the server has posix-rename
  Operations  \* the operations clients may call

Clients == Brokered \cup Outsiders
Dirs    == {Root} \cup Subs
Files   == [by : Clients \cup {Old}, stamp : Stamps, whole : BOOLEAN]
Nodes   == Files \cup Subs \cup {Absent}
Paths   == {<<n>> : n \in Names} \cup {<<n, m>> : n, m \in Names}

Writes == [op : {"write"}, to : Paths, stamp : Stamps \cup {Absent},
           hash : Clients \cup {Old, Absent}, force : BOOLEAN]
Moves  == [op : {"move"}, from : Paths, to : Paths, force : BOOLEAN]
Mkdirs == [op : {"mkdir"}, to : Paths, parents : BOOLEAN]
Deletes == [op : {"delete"}, to : Paths]

ASSUME FileOpsAssumption ==
  /\ Brokered \cap Outsiders = {} /\ Names \cap Clients = {}
  /\ Root \notin Subs /\ Absent \notin Files \cup Dirs \cup Clients \cup Stamps
  /\ Files \cap Dirs = {} /\ Servers \subseteq BOOLEAN
  /\ Operations \subseteq Writes \cup Moves \cup Mkdirs \cup Deletes

VARIABLES
  posix,     \* the server knows posix-rename@openssh.com
  tree,      \* the entries of each directory; a client's own name is its
             \* temporary file
  sftpLock,  \* sftp_lock of the broker
  call,      \* the operation each client calls
  pc,        \* its next request
  result,    \* "none", "ok", "error", or "lost" with the session
  late,      \* lost requests the server may still serve
  replaced,  \* what each operation found at its target when it acted
  reported,  \* what each write found there afterwards: its mtime and size
  disturbers \* who changed that entry since the operation began

vars == <<posix, tree, sftpLock, call, pc, result, late, replaced, reported, disturbers>>

Empty == [n \in Names \cup Clients |-> Absent]

Init ==
  /\ posix \in Servers
  /\ \E top \in [Names -> [by : {Old}, stamp : Stamps, whole : {TRUE}]
                            \cup Subs \cup {Absent}] :
       /\ \A m, n \in Names : top[m] \in Subs /\ top[m] = top[n] => m = n
       /\ tree = [d \in Dirs |->
                    [n \in Names \cup Clients |->
                       IF d = Root /\ n \in Names THEN top[n] ELSE Absent]]
  /\ sftpLock = Absent
  /\ call = [c \in Clients |-> Absent]
  /\ pc = [c \in Clients |-> "idle"]
  /\ result = [c \in Clients |-> "none"]
  /\ late = {}
  /\ replaced = [c \in Clients |-> Absent]
  /\ reported = [c \in Clients |-> Absent]
  /\ disturbers = [c \in Clients |-> {}]

(***************************************************************************)
(* The server's tree.                                                      *)
(***************************************************************************)
\* The directory a path lies in, and the entry at a path.
DirOf(t, p) == IF Len(p) = 1 THEN Root
               ELSE IF t[Root][p[1]] \in Subs THEN t[Root][p[1]] ELSE Absent
At(t, p) == IF DirOf(t, p) = Absent THEN Absent ELSE t[DirOf(t, p)][Last(p)]

Put(p, node) == [tree EXCEPT ![DirOf(tree, p)][Last(p)] = node]
Temp(c)   == Append(Front(call[c].to), c)
Source(c) == IF call[c].op = "write" THEN Temp(c) ELSE call[c].from
Attached(d) == \E e \in Dirs : \E n \in Names : tree[e][n] = d

\* A rename takes the place of a file by a file, or of an empty directory by
\* a directory, unless that directory would hold itself.
Replaces(p, q) ==
  LET new == At(tree, p) old == At(tree, q)
  IN  /\ new # Absent /\ DirOf(tree, q) \notin {Absent, new}
      /\ new \in Subs => old = Absent \/ (old \in Subs /\ tree[old] = Empty)
      /\ new \notin Subs => old \notin Subs

Renamed(p, q) ==
  [tree EXCEPT ![DirOf(tree, p)][Last(p)] = Absent,
               ![DirOf(tree, q)][Last(q)] = At(tree, p)]

RemovedFile(p) == IF At(tree, p) \in Subs \cup {Absent} THEN {}
                  ELSE {Put(p, Absent)}

\* The trees the server may have after it served request m of client c; none
\* when it must refuse it.
Effects(c, m) ==
  LET to == call[c].to IN
  CASE m = "open" ->
         {Put(Temp(c), [by |-> c, stamp |-> st, whole |-> FALSE]) :
            st \in {s \in Stamps : DirOf(tree, to) # Absent}}
    [] m = "fill" ->
         {[d \in Dirs |-> IF tree[d][c] = Absent THEN tree[d]
                          ELSE [tree[d] EXCEPT ![c].whole = TRUE]]}
    [] m = "rename" ->
         IF posix /\ Replaces(Source(c), to) THEN {Renamed(Source(c), to)} ELSE {}
    [] m \in {"rename3", "again"} ->
         IF At(tree, to) = Absent /\ Replaces(Source(c), to)
         THEN {Renamed(Source(c), to)} ELSE {}
    [] m \in {"unlink", "remove"} -> RemovedFile(to)
    [] m = "cleanup" -> RemovedFile(Temp(c))
    [] m = "rmdir" ->
         IF At(tree, to) \in Subs /\ tree[At(tree, to)] = Empty
         THEN {Put(to, Absent)} ELSE {}
    [] m \in {"mkdir top", "mkdir"} ->
         LET p == IF m = "mkdir" THEN to ELSE <<to[1]>>
         IN  {Put(p, d) : d \in {s \in Subs :
                /\ DirOf(tree, p) # Absent /\ At(tree, p) = Absent
                /\ ~Attached(s)}}

Requests == {"open", "fill", "rename", "rename3", "again", "unlink", "remove",
             "cleanup", "rmdir", "mkdir top", "mkdir"}
Looks == {"look top", "look", "look to", "hash", "list", "restat"}

(***************************************************************************)
(* The steps of an operation.                                              *)
(***************************************************************************)
Active(c) == pc[c] \notin {"idle", "done"}

\* The operation goes on with a request, or ends and frees the lock.
Goes(c, next) ==
  /\ pc' = [pc EXCEPT ![c] = IF next \in Looks \cup Requests THEN next ELSE "done"]
  /\ result' = [result EXCEPT ![c] = IF pc'[c] = "done" THEN next ELSE @]
  /\ sftpLock' = IF pc'[c] = "done" /\ sftpLock = c THEN Absent ELSE sftpLock

\* Who changes the tree disturbs every other operation under way whose target
\* this touches.
Disturbs(x) ==
  disturbers' = [c \in Clients |->
    IF /\ Active(c) /\ c # x
       /\ At(tree', call[c].to) # At(tree, call[c].to)
    THEN disturbers[c] \cup {x} ELSE disturbers[c]]

MayStart(c) == c \in Outsiders \/ sftpLock = Absent

Start(c) ==
  /\ pc[c] = "idle" /\ MayStart(c)
  /\ \E o \in Operations :
       /\ call' = [call EXCEPT ![c] = o]
       /\ pc' = [pc EXCEPT ![c] =
            IF o.op = "mkdir" /\ o.parents /\ Len(o.to) = 2
            THEN "look top" ELSE "look"]
  /\ sftpLock' = IF c \in Brokered THEN c ELSE sftpLock
  /\ UNCHANGED <<posix, tree, result, late, replaced, reported, disturbers>>

\* A look at the tree, which decides what comes next.
Look(c, name, op, next) ==
  /\ pc[c] = name /\ call[c].op = op
  /\ Goes(c, next)
  /\ UNCHANGED <<posix, tree, call, late, replaced, reported, disturbers>>

Target(c) == At(tree, call[c].to)
HasParent(c) == DirOf(tree, call[c].to) # Absent

Conflict(c) ==
  LET o == call[c]
  IN  /\ ~o.force /\ (o.stamp # Absent \/ o.hash # Absent)
      /\ \/ Target(c) \in Subs \cup {Absent}
         \/ o.stamp # Absent /\ Target(c).stamp # o.stamp

\* Mutant: the hash is not compared when the stamp was.
TrustStamp(c) ==
  Look(c, "look", "write", IF ~HasParent(c) \/ Conflict(c) THEN "error" ELSE "open")

LookAtCurrent(c) ==
  Look(c, "look", "write",
       IF ~HasParent(c) \/ Conflict(c) THEN "error"
       ELSE IF call[c].hash # Absent /\ ~call[c].force THEN "hash" ELSE "open")

Sha256(c) ==
  Look(c, "hash", "write",
       IF /\ Target(c) \notin Subs \cup {Absent}
          /\ Target(c).by = call[c].hash
       THEN "open" ELSE "error")

\* The reply of a write: the mtime and size its target has by now.
Restat(c) ==
  /\ pc[c] = "restat"
  /\ Goes(c, IF Target(c) = Absent THEN "error" ELSE "ok")
  /\ reported' = [reported EXCEPT ![c] = Target(c)]
  /\ UNCHANGED <<posix, tree, call, late, replaced, disturbers>>

LookAtSource(c) ==
  Look(c, "look", "move",
       IF At(tree, call[c].from) = Absent THEN "error" ELSE "look to")

LookAtDestination(c) ==
  Look(c, "look to", "move",
       IF ~HasParent(c) THEN "error"
       ELSE IF call[c].from = call[c].to THEN "ok"
       ELSE IF Target(c) # Absent /\ ~call[c].force THEN "error" ELSE "rename")

LookAtSegment(c) ==
  \/ LET top == tree[Root][call[c].to[1]]
     IN  Look(c, "look top", "mkdir",
              IF top = Absent THEN "mkdir top"
              ELSE IF top \in Subs THEN "look" ELSE "error")
  \/ Look(c, "look", "mkdir",
          IF Target(c) = Absent /\ (call[c].parents \/ HasParent(c)) THEN "mkdir"
          ELSE IF call[c].parents /\ Target(c) \in Subs THEN "ok" ELSE "error")

LookAtDoomed(c) ==
  Look(c, "look", "delete",
       IF Target(c) = Absent THEN "error"
       ELSE IF Target(c) \in Subs THEN "list" ELSE "remove")

ListDoomed(c) ==
  Look(c, "list", "delete",
       IF Target(c) \in Subs /\ tree[Target(c)] = Empty THEN "rmdir" ELSE "error")

\* A look is refused, or lost with the session.
LookFails(c) ==
  /\ pc[c] \in Looks
  /\ \E r \in {"error", "lost"} : Goes(c, r)
  /\ UNCHANGED <<posix, tree, call, late, replaced, reported, disturbers>>

\* Mutant: the file is renamed before it is filled and closed.
RenameFirst(c) ==
  CASE pc[c] = "open" -> "rename"
    [] pc[c] = "fill" -> "restat"
    [] pc[c] \in {"rename", "rename3", "again"} ->
         IF call[c].op = "write" THEN "fill" ELSE "ok"
    [] pc[c] = "unlink" -> "again"
    [] pc[c] = "mkdir top" -> "look"
    [] pc[c] = "cleanup" -> "error"
    [] OTHER -> "ok"

\* What follows a request that was served, or refused.
AfterServed(c) ==
  CASE pc[c] = "open" -> "fill"
    [] pc[c] = "fill" -> "rename"
    [] pc[c] \in {"rename", "rename3", "again"} ->
         IF call[c].op = "write" THEN "restat" ELSE "ok"
    [] pc[c] = "unlink" -> "again"
    [] pc[c] = "mkdir top" -> "look"
    [] pc[c] = "cleanup" -> "error"
    [] OTHER -> "ok"

\* Mutant: every refusal of posix-rename leads to the fall-back.
AlwaysFallBack(c) ==
  LET failed == IF call[c].op = "write" /\ pc[c] # "cleanup" THEN "cleanup" ELSE "error"
  IN  CASE pc[c] = "rename" -> {"rename3"}
        [] pc[c] = "rename3" -> {"unlink", failed}
        [] OTHER -> {failed}

AfterRefused(c) ==
  LET failed == IF call[c].op = "write" /\ pc[c] # "cleanup" THEN "cleanup" ELSE "error"
  IN  CASE pc[c] = "rename" /\ ~posix -> {"rename3"}      \* FX_OP_UNSUPPORTED
        [] pc[c] = "rename3" -> {"unlink", failed}        \* FX_FAILURE, or another
        [] OTHER -> {failed}

Serve(c) ==
  /\ pc[c] \in Requests
  /\ tree' \in Effects(c, pc[c])
  /\ replaced' = [replaced EXCEPT ![c] =
       IF pc[c] \in {"rename", "rename3", "unlink"} THEN Target(c) ELSE @]
  /\ Goes(c, AfterServed(c))
  /\ Disturbs(c)
  /\ UNCHANGED <<posix, call, late, reported>>

Refuse(c) ==
  /\ pc[c] \in Requests
  /\ \E next \in AfterRefused(c) : Goes(c, next)
  /\ UNCHANGED <<posix, tree, call, late, replaced, reported, disturbers>>

\* The session ends before the reply: the request was not served, was served,
\* or will be.  The error of a clean-up is swallowed.
Lose(c) ==
  /\ pc[c] \in Requests
  /\ \/ UNCHANGED <<tree, late>>
     \/ tree' \in Effects(c, pc[c]) /\ UNCHANGED late
     \/ late' = late \cup {<<c, pc[c]>>} /\ UNCHANGED tree
  /\ Goes(c, IF pc[c] = "cleanup" THEN "error" ELSE "lost")
  /\ Disturbs(c)
  /\ UNCHANGED <<posix, call, replaced, reported>>

LateEffect ==
  \E r \in late :
    /\ late' = late \ {r}
    /\ IF Effects(r[1], r[2]) = {} THEN UNCHANGED tree
       ELSE tree' \in Effects(r[1], r[2])
    /\ Disturbs(r[1])
    /\ UNCHANGED <<posix, sftpLock, call, pc, result, replaced, reported>>

Step(c) ==
  \/ Start(c)
  \/ LookAtCurrent(c) \/ Sha256(c) \/ Restat(c)
  \/ LookAtSource(c) \/ LookAtDestination(c)
  \/ LookAtSegment(c)
  \/ LookAtDoomed(c) \/ ListDoomed(c)
  \/ LookFails(c) \/ Serve(c) \/ Refuse(c) \/ Lose(c)

Next == LateEffect \/ \E c \in Clients : Step(c)

Spec == Init /\ [][Next]_vars

(***************************************************************************)
(* Properties.                                                             *)
(***************************************************************************)
TypeOK ==
  /\ posix \in BOOLEAN
  /\ tree \in [Dirs -> [Names \cup Clients -> Nodes]]
  /\ sftpLock \in Brokered \cup {Absent}
  /\ call \in [Clients -> Operations \cup {Absent}]
  /\ pc \in [Clients -> Looks \cup Requests \cup {"idle", "done"}]
  /\ result \in [Clients -> {"none", "ok", "error", "lost"}]
  /\ late \subseteq Clients \X Requests
  /\ replaced \in [Clients -> Nodes] /\ reported \in [Clients -> Nodes]
  /\ disturbers \in [Clients -> SUBSET Clients]

\* A partly written file is never seen under a name, only as a temporary one.
NoTornFile ==
  \A d \in Dirs : \A n \in Names :
    tree[d][n] \in Subs \cup {Absent} \/ tree[d][n].whole

\* An operation that reports success has left no temporary file.
NoLeftover ==
  \A c \in Clients : result[c] = "ok" => \A d \in Dirs : tree[d][c] = Absent

\* The broker's clients are at work one at a time.
OneAtATime ==
  \A c \in Brokered : Active(c) <=> sftpLock = c

\* A directory is in the tree at most once, and what is not in it is empty.
TreeShape ==
  /\ \A d \in Subs : ~Attached(d) => tree[d] = Empty
  /\ \A d, e \in Dirs : \A m, n \in Names :
       tree[d][m] \in Subs /\ tree[d][m] = tree[e][n] => d = e /\ m = n

FileInv == TypeOK /\ NoTornFile /\ NoLeftover /\ OneAtATime /\ TreeShape

\* What the caller expected of the target held when the operation acted.
Met(c) ==
  LET o == call[c] r == replaced[c] IN
  \/ o.op \in {"mkdir", "delete"} \/ (o.op \in {"write", "move"} /\ o.force)
  \/ o.op = "move" /\ r = Absent
  \/ /\ o.op = "write"
     /\ o.stamp # Absent \/ o.hash # Absent => r \notin Subs \cup {Absent}
     /\ o.stamp # Absent => r.stamp = o.stamp
     /\ o.hash # Absent => r.by = o.hash

\* The mtime and size a write reports, which its caller will expect next time,
\* are those of the file it wrote.
ReportsOwn(c) ==
  call[c].op = "write" => reported[c] \in Files /\ reported[c].by = c

\* op_write_file compares the expected mtime, size and hash, and op_move looks
\* for an existing destination, several requests before the rename, and the
\* version a write reports is looked up after it.  When an operation succeeds
\* although what it replaced was not what its caller expected, or reports the
\* version of another, a client in direct mode took part, or one whose session
\* was lost: sftp_lock protects the broker's clients from each other.
HonoursExpectation ==
  \A c \in Clients : result[c] = "ok" /\ ~(Met(c) /\ ReportsOwn(c)) =>
    \E x \in disturbers[c] : {c, x} \cap Outsiders # {} \/ result[x] = "lost"

\* "atomic replace within the same directory": no step of a write makes a file
\* at its target disappear, if the server knows posix-rename.  (The fall-back
\* for other servers removes it first, and may then fail.)
ReplaceKeepsTarget ==
  [][\A c \in Clients :
       /\ posix /\ Active(c) /\ pc[c] # pc'[c] /\ call[c].op = "write"
       /\ Target(c) # Absent
       => At(tree', call[c].to) # Absent]_vars

(***************************************************************************)
(* The inductive invariant.                                                *)
(***************************************************************************)
Renaming == {"rename", "rename3", "unlink", "again"}

\* The steps of each operation.
Steps == [write  |-> {"look", "hash", "open", "fill", "cleanup", "restat", "done"}
                      \cup Renaming,
          move   |-> {"look", "look to", "done"} \cup Renaming,
          mkdir  |-> {"look top", "look", "mkdir top", "mkdir", "done"},
          delete |-> {"look", "list", "remove", "rmdir", "done"}]

\* A client is at a step of its operation, and a request of it that may still
\* be served is its last.
CallInPlace(c) ==
  /\ pc[c] # "idle" => call[c] \in Operations /\ pc[c] \in Steps[call[c].op]
  /\ pc[c] = "done" <=> result[c] # "none"
  /\ posix => pc[c] \notin Renaming \ {"rename"}
  /\ \A m \in Requests : <<c, m>> \in late =>
       /\ pc[c] = "done" /\ m \in Steps[call[c].op]
       /\ result[c] = "lost" \/ (result[c] = "error" /\ m = "cleanup")
       /\ posix => m \notin Renaming \ {"rename"}
  /\ \A l, m \in Requests : <<c, l>> \in late /\ <<c, m>> \in late => l = m

\* The next request of a client, or the one that may still be served.
Pending(c, m) == pc[c] = m \/ <<c, m>> \in late

\* A write has one temporary file at most, none before it is opened and once it
\* has its name, and renames it when it is whole.
TempInPlace(c) ==
  /\ \A d \in Dirs : tree[d][c] = Absent \/ (tree[d][c] \in Files /\ tree[d][c].by = c)
  /\ \A d, e \in Dirs : tree[d][c] # Absent /\ tree[e][c] # Absent => d = e
  /\ \/ pc[c] \in Looks \cup {"idle"} \/ Pending(c, "open")
     \/ pc[c] # "idle" /\ call[c].op # "write"
     => \A d \in Dirs : tree[d][c] = Absent
  /\ \A m \in Renaming : Pending(c, m) =>
       \A d \in Dirs : tree[d][c] # Absent => tree[d][c].whole

\* What an operation may still expect of its target, as long as nobody changed it.
AsExpected(c) ==
  LET o == call[c] t == Target(c) IN
  /\ pc[c] = "hash" => t \in Files /\ (o.stamp # Absent => t.stamp = o.stamp)
  /\ o.op = "write" /\ pc[c] \in {"open", "fill", "rename", "rename3", "unlink"} =>
       \/ o.force \/ (o.stamp = Absent /\ o.hash = Absent)
       \/ /\ t \in Files /\ (o.stamp # Absent => t.stamp = o.stamp)
          /\ (o.hash # Absent => t.by = o.hash)
  /\ o.op = "move" /\ pc[c] \in {"rename", "rename3", "unlink"} => o.force \/ t = Absent
  /\ pc[c] = "again" => Met(c)
  /\ pc[c] = "restat" => Met(c) /\ t \in Files /\ t.by = c
  /\ result[c] = "ok" => Met(c) /\ ReportsOwn(c)

\* Whoever changed the target of an operation under way is no client of the
\* broker whose call has ended, and else the target is as expected.
ExpectationInPlace(c) ==
  /\ pc[c] \in (Looks \ {"restat"}) \cup {"idle", "mkdir top"} => replaced[c] = Absent
  /\ \A x \in disturbers[c] : {c, x} \cap Outsiders # {} \/ result[x] = "lost"
  /\ pc[c] # "idle" /\ disturbers[c] = {} => AsExpected(c)

TreeInv ==
  /\ FileInv
  /\ \A c \in Clients : CallInPlace(c) /\ TempInPlace(c) /\ ExpectationInPlace(c)

=============================================================================
