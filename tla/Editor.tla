-------------------------------- MODULE Editor --------------------------------
(***************************************************************************)
(* The browser editor (sshbridge/web_assets/app.js): one thread, whose     *)
(* handlers give it up at every request to the workspace service and go on *)
(* with the reply, whatever the user did in between.                       *)
(*                                                                         *)
(* The service (web.py) serves one request at a time, under a lock, each   *)
(* by the file operations of ops.py: a write checks the file, replaces it  *)
(* and then asks for the stamp it got.  Whoever else has access (clients   *)
(* of the broker, direct clients, programs on the server) changes the      *)
(* files between any two of these steps.  A stamp is (mtime in seconds,    *)
(* size): two versions of a file may have the same.  What a file says is    *)
(* not kept: others may have written anything, and a read returns some     *)
(* text.  A request that takes effect after its handler was told of an     *)
(* error is one of the others' steps, and so is what a failed replacement  *)
(* leaves behind (FileOps).                                                *)
(*                                                                         *)
(* Left out: directories and the tree pane (the user may click any path),  *)
(* new folders, the reconnect button, and all layout.                      *)
(***************************************************************************)

CONSTANTS
  Paths,   \* files
  Words,   \* what a text says, line endings apart
  Blank,   \* the words of a new file
  Opaque,  \* the text of a binary or too large file
  Stamps,  \* what the server says of a version: mtime and size
  Absent,  \* no file, no reply, nothing expected
  Slots    \* at most this many handlers wait for a reply

\* "CRLF" ends the lines of a text with a carriage return in it.  A textarea
\* holds texts without: its value normalises what it is assigned.
Texts == {t \in [words : Words, ends : {"LF", "CRLF"}] :
            t.words = Blank => t.ends = "LF"}
Normalized(t) == [t EXCEPT !.ends = "LF"]
Editable == {t \in Texts : t.ends = "LF"}
Empty == [words |-> Blank, ends |-> "LF"]

Files    == [stamp : Stamps, text : Texts \cup {Opaque}]
Opened   == [path : Paths, stamp : Stamps, content : Texts]
Replies  == [code : {"OK", "NOT_FOUND", "TOO_LARGE", "CONFLICT"},
             file : Files \cup {Absent}]
Calls    ==
  [op : {"open", "save", "refresh", "create", "rename", "delete"},
   route : {"stat", "read", "write", "move", "delete", "list"},
   path : Paths \cup {Absent}, to : Paths \cup {Absent}, text : Editable,
   expected : Stamps \cup {Absent}, force : BOOLEAN,
   stage : {"asked", "found", "checked", "replaced", "answered"},
   found : Stamps \cup {Absent}, reply : Replies \cup {Absent}]

\* Absent is null: no path, no number and no record.
ASSUME EditorAssumption ==
  /\ Blank \in Words /\ Opaque \notin Texts
  /\ Absent \notin Paths \cup Texts \cup {Opaque} \cup Slots
  /\ Absent \notin Stamps \cup Files \cup Opened \cup Replies \cup Calls

VARIABLES
  remote,    \* the files of the server, by their stamps
  current,   \* state.currentFile
  displayed, \* state.displayedPath
  selected,  \* state.selectedPath; Absent is the root directory
  dirty,     \* state.dirty
  buffer,    \* elements.editor.value
  calls,     \* the handlers that wait, with their request and its reply
  base,      \* ghost: the text last read from the server, or sent, for current
  seen,      \* ghost: stamps a reply told the editor of
  overtaken  \* ghost: handlers whose file others changed since it was checked

page  == <<current, displayed, selected, dirty, buffer, base>>
vars  == <<remote, page, calls, seen, overtaken>>

Init ==
  /\ remote \in [Paths -> Stamps \cup {Absent}]
  /\ current = Absent /\ displayed = Absent /\ selected = Absent
  /\ dirty = FALSE /\ buffer = Empty /\ base = Empty
  /\ calls = [s \in Slots |-> Absent]
  /\ seen = {} /\ overtaken = {}

(***************************************************************************)
(* Requests.                                                               *)
(***************************************************************************)
\* Handler op asks for route with these arguments.
Request(op, route, path, to, text, expected, force) ==
  [op |-> op, route |-> route, path |-> path, to |-> to, text |-> text,
   expected |-> expected, force |-> force, stage |-> "asked", found |-> Absent,
   reply |-> Absent]

Ask(op, route, path) == Request(op, route, path, path, Empty, Absent, FALSE)

\* refreshDirectory, which catches every error: any time later its caller goes
\* on, so its reply is there at once.
Listing(op, path) ==
  [Ask(op, "list", path) EXCEPT
     !.stage = "answered", !.reply = [code |-> "OK", file |-> Absent]]

\* await: the handler in slot s has this request under way, or is done.
Await(s, request) == calls' = [calls EXCEPT ![s] = request]
Done(s) == Await(s, Absent)

\* The errors a handler goes on with.  After any other it only shows the
\* message, and is done with the reply.
Heeded == {<<"create", "NOT_FOUND">>, <<"open", "TOO_LARGE">>, <<"save", "CONFLICT">>}

\* With the reply, what was sent is not needed any more: a save does not even
\* look at its path again.
Answers(s, code, file) ==
  LET c == calls[s] IN
  IF code # "OK" /\ <<c.op, code>> \notin Heeded THEN Done(s)
  ELSE Await(s, [c EXCEPT !.reply = [code |-> code, file |-> file],
                          !.stage = "answered", !.found = Absent,
                          !.text = Empty, !.expected = Absent,
                          !.path = IF c.op = "save" THEN Absent ELSE @,
                          !.to = IF c.op = "save" THEN Absent ELSE @])

At(s, route, stage) ==
  calls[s] # Absent /\ calls[s].route = route /\ calls[s].stage = stage

\* sftp_lock, or the lock of WorkspaceService: the next request is served when
\* the last is.
InService(s) ==
  calls[s] # Absent /\ calls[s].stage \in {"found", "checked", "replaced"}

Begins(s, route) == At(s, route, "asked") /\ ~\E t \in Slots : InService(t)

Proceeds(s, stage, found) ==
  Await(s, [calls[s] EXCEPT !.stage = stage, !.found = found, !.expected = Absent])

ServeStat(s) ==
  /\ Begins(s, "stat")
  /\ IF remote[calls[s].path] = Absent THEN Answers(s, "NOT_FOUND", Absent)
     ELSE Answers(s, "OK", Absent) \/ Answers(s, "TOO_LARGE", Absent)
  /\ UNCHANGED <<remote, overtaken>>

\* op_read_file asks for the stamp first and then reads what is there by then.
FindFile(s) ==
  /\ Begins(s, "read")
  /\ LET file == remote[calls[s].path] IN
     file # Absent /\ Proceeds(s, "found", file)
  /\ UNCHANGED <<remote, overtaken>>

ReadFile(s) ==
  /\ At(s, "read", "found")
  /\ remote[calls[s].path] # Absent
  /\ \E t \in Texts \cup {Opaque} :
       Answers(s, "OK", [stamp |-> calls[s].found, text |-> t])
  /\ UNCHANGED <<remote, overtaken>>

\* op_write_file: the check, the replacement of the file, and the stamp it has
\* by then, which createFile does not look at.  (The text is for base.)
CheckWrite(s) ==
  LET c == calls[s] old == remote[c.path] IN
  /\ Begins(s, "write")
  /\ IF c.expected # Absent /\ ~c.force /\ old # c.expected
     THEN Answers(s, "CONFLICT", Absent)
     ELSE Proceeds(s, "checked", Absent)
  /\ UNCHANGED <<remote, overtaken>>

ReplaceFile(s) ==
  /\ At(s, "write", "checked")
  /\ \E stamp \in Stamps :
       remote' = [remote EXCEPT ![calls[s].path] = stamp]
  /\ Proceeds(s, "replaced", Absent) /\ overtaken' = overtaken \ {s}

ReportWrite(s) ==
  /\ At(s, "write", "replaced")
  /\ LET c == calls[s] file == remote[c.path] IN
     /\ file # Absent
     /\ Answers(s, "OK", IF c.op = "save" THEN [stamp |-> file, text |-> c.text]
                         ELSE Absent)
  /\ UNCHANGED <<remote, overtaken>>

\* op_move: the check, and the rename.
CheckMove(s) ==
  /\ Begins(s, "move")
  /\ remote[calls[s].path] # Absent /\ remote[calls[s].to] = Absent
  /\ Proceeds(s, "checked", Absent)
  /\ UNCHANGED <<remote, overtaken>>

MoveFile(s) ==
  LET c == calls[s] IN
  /\ At(s, "move", "checked") /\ remote[c.path] # Absent
  /\ remote' = [remote EXCEPT ![c.path] = Absent, ![c.to] = remote[c.path]]
  /\ Answers(s, "OK", Absent) /\ UNCHANGED overtaken

\* op_delete removes what is there, whatever its check found.
ServeDelete(s) ==
  LET c == calls[s] IN
  /\ Begins(s, "delete") /\ remote[c.path] # Absent
  /\ remote' = [remote EXCEPT ![c.path] = Absent]
  /\ Answers(s, "OK", Absent) /\ UNCHANGED overtaken

\* The request is refused (there is nothing to read, move or remove, or
\* something in the way), or fails, or its reply is lost.
ServeFails(s) ==
  /\ calls[s] # Absent /\ calls[s].stage # "answered"
  /\ Done(s) /\ UNCHANGED remote /\ overtaken' = overtaken \ {s}

Serve(s) ==
  /\ \/ ServeStat(s) \/ FindFile(s) \/ ReadFile(s)
     \/ CheckWrite(s) \/ ReplaceFile(s) \/ ReportWrite(s)
     \/ CheckMove(s) \/ MoveFile(s) \/ ServeDelete(s) \/ ServeFails(s)
  /\ UNCHANGED <<page, seen>>

Others ==
  /\ \E p \in Paths : \E file \in Stamps \cup {Absent} :
       /\ remote' = [remote EXCEPT ![p] = file]
       /\ overtaken' = overtaken \cup
            {s \in Slots : At(s, "write", "checked") /\ calls[s].path = p}
  /\ UNCHANGED <<page, calls, seen>>

(***************************************************************************)
(* What the user does.                                                     *)
(***************************************************************************)
Free(s) == calls[s] = Absent

\* openFile.  With unsaved edits the user may confirm, or stay.
Open(s, p, force) ==
  IF ~force /\ current # Absent /\ current.path = p
  THEN selected' = p /\ Done(s)
  ELSE \/ selected' = p /\ Await(s, Ask("open", "stat", p))
       \/ dirty /\ UNCHANGED selected /\ Done(s)

Click(s, p) ==
  /\ Free(s) /\ Open(s, p, FALSE)
  /\ UNCHANGED <<remote, overtaken, current, displayed, dirty, buffer, base, seen>>

Type ==
  /\ current # Absent
  /\ \E t \in Editable :
       buffer' = t /\ dirty' = (t # current.content)
  /\ UNCHANGED <<remote, overtaken, current, displayed, selected, base, calls, seen>>

\* Mutant: the save does not say which stamp it expects.
SaveBlind(force) ==
  Request("save", "write", current.path, current.path, buffer, Absent, force)

SaveRequest(force) ==
  Request("save", "write", current.path, current.path, buffer, current.stamp, force)

Save(s) ==
  /\ Free(s) /\ current # Absent /\ dirty
  /\ Await(s, SaveRequest(FALSE))
  /\ UNCHANGED <<remote, overtaken, page, seen>>

\* The refresh button, and a new file under a name the user gives.
RefreshSelection(s) ==
  /\ Free(s) /\ Await(s, Listing("refresh", Absent))
  /\ UNCHANGED <<remote, overtaken, page, seen>>

CreateFile(s, p) ==
  /\ Free(s) /\ Await(s, Ask("create", "stat", p))
  /\ UNCHANGED <<remote, overtaken, page, seen>>

RenameSelected(s, p) ==
  /\ Free(s) /\ selected \notin {Absent, p}
  /\ Await(s, Request("rename", "move", selected, p, Empty, Absent, FALSE))
  /\ UNCHANGED <<remote, overtaken, page, seen>>

DeleteSelected(s) ==
  /\ Free(s) /\ selected # Absent
  /\ Await(s, Ask("delete", "delete", selected))
  /\ UNCHANGED <<remote, overtaken, page, seen>>

(***************************************************************************)
(* What the handlers do with a reply.                                      *)
(***************************************************************************)
Replied(s, op, route) ==
  At(s, route, "answered") /\ calls[s].op = op

OK(s)   == calls[s].reply.code = "OK"
File(s) == calls[s].reply.file

ShowReadonly(p) ==
  /\ current' = Absent /\ displayed' = p /\ dirty' = FALSE
  /\ buffer' = Empty \* what it holds is hidden until a file is shown
  /\ base' = Empty
  /\ UNCHANGED selected

OpenStat(s) ==
  /\ Replied(s, "open", "stat")
  /\ IF OK(s) THEN Await(s, Ask("open", "read", calls[s].path)) /\ UNCHANGED page
     ELSE Done(s) /\ ShowReadonly(calls[s].path)
  /\ UNCHANGED seen

ShowFile(p, file) ==
  /\ current' = [path |-> p, stamp |-> file.stamp, content |-> file.text]
  /\ displayed' = p /\ dirty' = FALSE
  /\ buffer' = Normalized(file.text) /\ base' = buffer'
  /\ UNCHANGED selected

OpenRead(s) ==
  /\ Replied(s, "open", "read") /\ Done(s)
  /\ IF File(s).text = Opaque
     THEN ShowReadonly(calls[s].path) /\ UNCHANGED seen
     ELSE ShowFile(calls[s].path, File(s)) /\ seen' = seen \cup {File(s).stamp}

\* The reply of a save is put on whatever file is shown by now; with none the
\* assignment throws, and the error is shown.
Saved(s) ==
  /\ Replied(s, "save", "write") /\ OK(s) /\ Done(s)
  /\ seen' = seen \cup {File(s).stamp}
  /\ IF current = Absent THEN UNCHANGED page
     ELSE /\ current' = [current EXCEPT !.content = buffer, !.stamp = File(s).stamp]
          /\ dirty' = FALSE /\ base' = File(s).text
          /\ UNCHANGED <<displayed, selected, buffer>>

\* After a conflict the user may have the save repeated with force: saveFile
\* then sends what is shown by now.
SaveRefused(s) ==
  /\ Replied(s, "save", "write") /\ ~OK(s)
  /\ \/ Done(s)
     \/ /\ ~calls[s].force
        /\ current # Absent /\ dirty
        /\ Await(s, SaveRequest(TRUE))
  /\ UNCHANGED <<page, seen>>

Refreshed(s) ==
  /\ Replied(s, "refresh", "list")
  /\ IF selected # Absent /\ ~dirty THEN Open(s, selected, TRUE)
     ELSE Done(s) /\ UNCHANGED selected
  /\ UNCHANGED <<current, displayed, dirty, buffer, base, seen>>

Created(s) ==
  LET p == calls[s].path IN
  \/ /\ Replied(s, "create", "stat")
     /\ IF OK(s) THEN Done(s) ELSE Await(s, Ask("create", "write", p))
     /\ UNCHANGED <<page, seen>>
  \/ /\ Replied(s, "create", "write")
     /\ Await(s, Listing("create", p))
     /\ UNCHANGED <<page, seen>>
  \/ /\ Replied(s, "create", "list") /\ Open(s, p, FALSE)
     /\ UNCHANGED <<current, displayed, dirty, buffer, base, seen>>

\* Mutant: the path on display follows the rename, the record does not.
RenamesLabel(s) ==
  LET c == calls[s] IN
  /\ Replied(s, "rename", "move") /\ Done(s)
  /\ selected' = c.to
  /\ displayed' = IF displayed = c.path THEN c.to ELSE displayed
  /\ UNCHANGED <<current, dirty, buffer, base, seen>>

Renamed(s) ==
  LET c == calls[s] IN
  /\ Replied(s, "rename", "move") /\ Done(s)
  /\ selected' = c.to
  /\ IF displayed = c.path
     THEN /\ displayed' = c.to
          /\ current' = IF current = Absent THEN Absent ELSE [current EXCEPT !.path = c.to]
     ELSE UNCHANGED <<displayed, current>>
  /\ UNCHANGED <<dirty, buffer, base, seen>>

ClearEditor ==
  /\ current' = Absent /\ displayed' = Absent /\ dirty' = FALSE
  /\ buffer' = Empty /\ base' = Empty

Deleted(s) ==
  /\ Replied(s, "delete", "delete") /\ Done(s)
  /\ selected' = Absent
  /\ IF displayed = calls[s].path THEN ClearEditor
     ELSE UNCHANGED <<current, displayed, dirty, buffer, base>>
  /\ UNCHANGED seen

Resume(s) ==
  /\ \/ OpenStat(s) \/ OpenRead(s) \/ Saved(s) \/ SaveRefused(s) \/ Refreshed(s)
     \/ Created(s) \/ Renamed(s) \/ Deleted(s)
  /\ UNCHANGED <<remote, overtaken>>

User(s) ==
  \/ \E p \in Paths : Click(s, p) \/ CreateFile(s, p) \/ RenameSelected(s, p)
  \/ Save(s) \/ RefreshSelection(s) \/ DeleteSelected(s)

Next == Others \/ Type \/ \E s \in Slots : User(s) \/ Serve(s) \/ Resume(s)

Spec == Init /\ [][Next]_vars

(***************************************************************************)
(* Properties.                                                             *)
(***************************************************************************)
TypeOK ==
  /\ remote \in [Paths -> Stamps \cup {Absent}]
  /\ current \in Opened \cup {Absent}
  /\ displayed \in Paths \cup {Absent} /\ selected \in Paths \cup {Absent}
  /\ dirty \in BOOLEAN /\ buffer \in Editable /\ base \in Editable
  /\ calls \in [Slots -> Calls \cup {Absent}]
  /\ seen \subseteq Stamps /\ overtaken \subseteq Slots

\* In whatever order replies arrive, the page agrees with itself: what is
\* marked as unsaved differs from the record, what is not is the record's text
\* with the line endings of the editor, the path on display is the record's,
\* and the record's stamp is one the server reported.
EditorInv ==
  /\ TypeOK
  /\ dirty => current # Absent /\ buffer # current.content
  /\ current # Absent /\ ~dirty => buffer = Normalized(current.content)
  /\ current # Absent => displayed = current.path /\ current.stamp \in seen

\* The conflict check of a save: unless the user forces it, a save replaces a
\* file only if it carries a stamp this editor was told of, however the replies
\* overtake each other.  The check cannot see what others do after it.
SavesOverSeen ==
  [][\A s \in Slots :
       At(s, "write", "checked") /\ calls[s].op = "save" /\ ~calls[s].force
         /\ ReplaceFile(s)
       => \/ s \in overtaken
          \/ remote[calls[s].path] \in seen]_vars

\* confirmDiscard: edits are only given up with the user's consent.  So what is
\* shown without the mark for unsaved edits is the text that was last read from
\* the server, or sent to it, for the record.
CleanIsStored == current # Absent /\ ~dirty => buffer = base

\* The inductive invariant: what waits in a handler.  A handler asks about
\* files only, and a reply has what its handler looks at.  What an unforced save
\* expects the editor was told of, and the file that passed its check has that
\* stamp until somebody else changes it.
Handlers ==
  {<<"open", "stat">>, <<"open", "read">>, <<"save", "write">>,
   <<"refresh", "list">>, <<"create", "stat">>, <<"create", "write">>,
   <<"create", "list">>, <<"rename", "move">>, <<"delete", "delete">>}

CallInPlace(c) ==
  /\ <<c.op, c.route>> \in Handlers
  /\ c.op # "refresh" /\ (c.op # "save" \/ c.stage # "answered") =>
       c.path \in Paths /\ c.to \in Paths
  /\ c.stage = "found" => c.found \in Stamps
  /\ c.stage = "answered" =>
       /\ c.reply # Absent
       /\ c.route = "read" => c.reply.code = "OK"
       /\ c.reply.code = "OK" /\ (c.route = "read" \/ c.op = "save") =>
            c.reply.file \in Files
       /\ c.reply.code = "OK" /\ c.op = "save" => c.reply.file.text \in Editable
  /\ c.op = "save" /\ c.stage = "asked" /\ ~c.force => c.expected \in seen

\* The lock is held by one request at most.
LockHeld == \A s, t \in Slots : InService(s) /\ InService(t) => s = t

Checked ==
  \A s \in Slots :
    At(s, "write", "checked") /\ calls[s].op = "save" /\ ~calls[s].force =>
      \/ s \in overtaken
      \/ remote[calls[s].path] \in seen

PageInv ==
  /\ EditorInv /\ LockHeld /\ Checked
  /\ \A s \in Slots : calls[s] # Absent => CallInPlace(calls[s])
=============================================================================
