----------------------------- MODULE Editor_proofs -----------------------------
(***************************************************************************)
(* Proofs about the browser editor (Editor): what the page shows and what  *)
(* its handlers wait for always fit together (PageInv), so an unforced     *)
(* save that nobody overtakes replaces only a file with a stamp this       *)
(* editor was told of.                                                     *)
(***************************************************************************)
EXTENDS Editor, TLAPS

\* The handlers a state holds are the ones that wait, each in its place.
Waiting ==
  /\ calls \in [Slots -> Calls \cup {Absent}]
  /\ \A s \in Slots : calls[s] # Absent => CallInPlace(calls[s])

\* PageInv is what the server has, what the page shows and what waits.
Server == remote \in [Paths -> Stamps \cup {Absent}] /\ overtaken \subseteq Slots
Shown ==
  /\ current \in Opened \cup {Absent}
  /\ displayed \in Paths \cup {Absent} /\ selected \in Paths \cup {Absent}
  /\ dirty \in BOOLEAN /\ buffer \in Editable /\ base \in Editable
  /\ seen \subseteq Stamps
  /\ dirty => current # Absent /\ buffer # current.content
  /\ current # Absent /\ ~dirty => buffer = Normalized(current.content)
  /\ current # Absent => displayed = current.path /\ current.stamp \in seen

Locked == LockHeld /\ Checked

InPlace == Server /\ Shown /\ Waiting /\ Locked

\* The inductive invariant, by who changes what.
LEMMA Parts == PageInv <=> InPlace
  BY DEF PageInv, EditorInv, TypeOK, Server, Shown, Waiting, Locked, InPlace

\* What the textarea holds is a text, and one without carriage returns.
LEMMA Textarea ==
  /\ Editable \subseteq Texts
  /\ \A t \in Texts : Normalized(t) \in Editable
  /\ \A t \in Editable : Normalized(t) = t
  /\ EditorAssumption => Empty \in Editable
BY DEF Editable, Texts, Normalized, Empty, EditorAssumption

\* The handler in slot s moves, and no request of it is being served after.
Quiet(s) ==
  /\ \A t \in Slots \ {s} : calls'[t] = calls[t]
  /\ calls'[s] # Absent => calls'[s].stage \in {"asked", "answered"}

\* Then the lock and what was checked under it are as before.
LEMMA QuietLocked ==
  ASSUME Locked, NEW s \in Slots, Quiet(s), seen \subseteq seen',
         \/ UNCHANGED remote /\ overtaken \ {s} \subseteq overtaken'
         \/ \A t \in Slots \ {s} : ~InService(t)
  PROVE  Locked'
<1>1. /\ ~InService(s)'
      /\ \A route : ~At(s, route, "checked")'
      /\ \A t \in Slots \ {s} : InService(t)' => InService(t)
  BY DEF Quiet, InService, At
<1>2. LockHeld'
  BY <1>1 DEF Locked, LockHeld
<1>3. Checked'
  <2>1. ASSUME NEW t \in Slots,
               At(t, "write", "checked")', (calls[t].op = "save")', (~calls[t].force)'
        PROVE  (t \in overtaken \/ remote[calls[t].path] \in seen)'
    <3>1. t \in Slots \ {s} /\ calls'[t] = calls[t]
      BY <1>1, <2>1 DEF Quiet
    <3>2. /\ At(t, "write", "checked") /\ calls[t].op = "save" /\ ~calls[t].force
          /\ InService(t)
      BY <2>1, <3>1 DEF At, InService
    <3>3. t \in overtaken \/ remote[calls[t].path] \in seen
      BY <3>2 DEF Locked, Checked
    <3> QED BY <3>1, <3>2, <3>3
  <2> QED BY <2>1 DEF Checked
<1> QED BY <1>2, <1>3 DEF Locked

\* A handler that is done, or sends a request, is quiet.
LEMMA AwaitQuiet ==
  ASSUME Waiting, NEW s \in Slots, NEW r, Await(s, r),
         r # Absent => r.stage \in {"asked", "answered"}
  PROVE  Quiet(s)
BY DEF Waiting, Await, Quiet

\* A handler that sends a request in its place leaves every handler in place.
LEMMA AwaitInPlace ==
  ASSUME Waiting, NEW s \in Slots, NEW r \in Calls \cup {Absent}, Await(s, r),
         r # Absent => CallInPlace(r), seen \subseteq seen'
  PROVE  Waiting'
<1>1. calls' \in [Slots -> Calls \cup {Absent}]
  BY DEF Waiting, Await
<1>2. ASSUME NEW t \in Slots, calls'[t] # Absent PROVE CallInPlace(calls[t])'
  <2>1. CASE t = s
    BY <1>2, <2>1 DEF Waiting, Await, CallInPlace
  <2>2. CASE t # s
    BY <1>2, <2>2 DEF Waiting, Await, CallInPlace
  <2> QED BY <2>1, <2>2
<1> QED BY <1>1, <1>2 DEF Waiting

\* A handler that is done leaves every other in place.
LEMMA DoneInPlace ==
  ASSUME Waiting, NEW s \in Slots, Done(s), seen \subseteq seen'
  PROVE  Waiting' /\ Quiet(s)
BY AwaitInPlace, AwaitQuiet DEF Done

\* The requests of the handlers are calls, and in their place.
LEMMA AskInPlace ==
  ASSUME EditorAssumption, NEW p \in Paths, NEW op, NEW route,
         <<op, route>> \in Handlers, op \notin {"save", "refresh"}
  PROVE  /\ Ask(op, route, p) \in Calls
         /\ CallInPlace(Ask(op, route, p))
         /\ Ask(op, route, p).stage = "asked"
BY Textarea DEF EditorAssumption, Ask, Request, Calls, Handlers, CallInPlace

\* The listing that follows a refresh or a new file is a call in its place.
LEMMA ListingInPlace ==
  ASSUME EditorAssumption, NEW p \in Paths \cup {Absent}, NEW op,
         op = "refresh" \/ (op = "create" /\ p \in Paths)
  PROVE  /\ Listing(op, p) \in Calls
         /\ CallInPlace(Listing(op, p))
         /\ Listing(op, p).stage = "answered"
<1> DEFINE a == Ask(op, "list", p)
           reply == [code |-> "OK", file |-> Absent]
           r == [a EXCEPT !.stage = "answered", !.reply = reply]
<1>1. reply \in Replies /\ reply # Absent
  BY DEF Replies, EditorAssumption
<1>2. a \in Calls
  BY Textarea DEF EditorAssumption, Calls, Ask, Request
<1>3. /\ a.op = op /\ a.route = "list" /\ a.path = p /\ a.to = p
  BY DEF Ask, Request
<1> HIDE DEF a, reply
<1>4. r \in Calls
  BY <1>1, <1>2 DEF Calls
<1>5. /\ r.op = op /\ r.route = "list" /\ r.path = p /\ r.to = p
      /\ r.reply = reply /\ r.stage = "answered"
  BY <1>2, <1>3 DEF Calls
<1>6. CallInPlace(r)
  BY <1>1, <1>5 DEF CallInPlace, Handlers
<1> QED BY <1>4, <1>5, <1>6 DEF Listing, a, reply

\* A save asks for the file on display, and expects the stamp on record.
LEMMA SaveInPlace ==
  ASSUME EditorAssumption, Shown, current # Absent, NEW force \in BOOLEAN
  PROVE  /\ SaveRequest(force) \in Calls
         /\ CallInPlace(SaveRequest(force))
         /\ SaveRequest(force).stage = "asked"
BY DEF EditorAssumption, Shown, SaveRequest, Request, Calls, Opened, Handlers,
       CallInPlace

\* A call with its reply, which needs nothing else of what was sent.
Patched(c, path, to, reply) ==
  [c EXCEPT !.reply = reply, !.stage = "answered", !.found = Absent,
            !.text = Empty, !.expected = Absent, !.path = path, !.to = to]

\* A call with its reply is a call.
LEMMA PatchedInPlace ==
  ASSUME EditorAssumption, NEW c \in Calls, NEW path \in Paths \cup {Absent},
         NEW to \in Paths \cup {Absent}, NEW reply \in Replies
  PROVE  /\ Patched(c, path, to, reply) \in Calls
         /\ Patched(c, path, to, reply).op = c.op
         /\ Patched(c, path, to, reply).route = c.route
         /\ Patched(c, path, to, reply).force = c.force
         /\ Patched(c, path, to, reply).path = path
         /\ Patched(c, path, to, reply).to = to
         /\ Patched(c, path, to, reply).stage = "answered"
         /\ Patched(c, path, to, reply).reply = reply
BY Textarea DEF EditorAssumption, Calls, Patched

\* The service's answer leaves the handler in its place, with its reply or
\* done.
LEMMA AnswerInPlace ==
  ASSUME EditorAssumption, Waiting, NEW s \in Slots,
         calls[s] # Absent, calls[s].stage # "answered",
         NEW code \in {"OK", "NOT_FOUND", "TOO_LARGE", "CONFLICT"},
         NEW file \in Files \cup {Absent},
         calls[s].route = "read" => code \in {"OK", "NOT_FOUND"},
         code = "OK" /\ (calls[s].route = "read" \/ calls[s].op = "save")
           => file \in Files,
         code = "OK" /\ calls[s].op = "save" => file.text \in Editable,
         Answers(s, code, file), UNCHANGED seen
  PROVE  Waiting' /\ Quiet(s)
<1> DEFINE c == calls[s]
           r == [c EXCEPT !.reply = [code |-> code, file |-> file],
                          !.stage = "answered", !.found = Absent,
                          !.text = Empty, !.expected = Absent,
                          !.path = IF c.op = "save" THEN Absent ELSE @,
                          !.to = IF c.op = "save" THEN Absent ELSE @]
<1>1. c \in Calls /\ CallInPlace(c)
  BY DEF Waiting
<1>2. CASE code # "OK" /\ <<c.op, code>> \notin Heeded
  <2>1. Done(s)
    BY <1>2 DEF Answers
  <2> QED BY <2>1, DoneInPlace
<1>3. CASE ~(code # "OK" /\ <<c.op, code>> \notin Heeded)
  <2>1. Await(s, r)
    BY <1>3 DEF Answers
  <2>2. [code |-> code, file |-> file] \in Replies
    BY DEF Replies
  <2>3. /\ r \in Calls
        /\ r.op = c.op /\ r.route = c.route /\ r.force = c.force
        /\ c.op # "save" => r.path = c.path /\ r.to = c.to
        /\ r.reply = [code |-> code, file |-> file] /\ r.stage = "answered"
    <3> DEFINE path == IF c.op = "save" THEN Absent ELSE c.path
               to == IF c.op = "save" THEN Absent ELSE c.to
    <3>1. path \in Paths \cup {Absent} /\ to \in Paths \cup {Absent}
      BY <1>1 DEF Calls
    <3>2. r = Patched(c, path, to, [code |-> code, file |-> file])
      BY DEF Patched
    <3>3. c.op # "save" => path = c.path /\ to = c.to
      OBVIOUS
    <3> HIDE DEF c, r, path, to
    <3> QED BY <1>1, <2>2, <3>1, <3>2, <3>3, PatchedInPlace
  <2>4. c.route = "read" => code = "OK"
    BY <1>1, <1>3 DEF Heeded, CallInPlace, Handlers
  <2>5. [code |-> code, file |-> file] # Absent
    BY <2>2 DEF EditorAssumption
  <2>6. CallInPlace(r)
    BY <1>1, <2>3, <2>4, <2>5 DEF CallInPlace
  <2> HIDE DEF r
  <2> QED BY <2>1, <2>3, <2>6, AwaitInPlace, AwaitQuiet
<1> QED BY <1>2, <1>3

\* A request that is being served goes on in its place.
LEMMA ProceedInPlace ==
  ASSUME EditorAssumption, Waiting, NEW s \in Slots,
         calls[s] # Absent, calls[s].stage # "answered",
         NEW stage \in {"found", "checked", "replaced"},
         NEW found \in Stamps \cup {Absent}, stage = "found" => found \in Stamps,
         Proceeds(s, stage, found), UNCHANGED seen
  PROVE  /\ Waiting' /\ \A t \in Slots \ {s} : calls'[t] = calls[t]
         /\ calls'[s].op = calls[s].op /\ calls'[s].route = calls[s].route
         /\ calls'[s].path = calls[s].path /\ calls'[s].force = calls[s].force
         /\ calls'[s].stage = stage
<1> DEFINE c == calls[s]
           r == [c EXCEPT !.stage = stage, !.found = found, !.expected = Absent]
<1>1. c \in Calls /\ CallInPlace(c)
  BY DEF Waiting
<1>2. /\ r \in Calls
      /\ r.op = c.op /\ r.route = c.route /\ r.force = c.force
      /\ r.path = c.path /\ r.to = c.to /\ r.stage = stage /\ r.found = found
  BY <1>1 DEF Calls
<1>3. Await(s, r)
  BY DEF Proceeds
<1> HIDE DEF r
<1>4. CallInPlace(r)
  BY <1>1, <1>2 DEF CallInPlace
<1>5. Waiting'
  BY <1>2, <1>3, <1>4, AwaitInPlace
<1>6. calls'[s] = r /\ \A t \in Slots \ {s} : calls'[t] = calls[t]
  BY <1>3 DEF Await, Waiting
<1> QED BY <1>2, <1>5, <1>6

\* It holds at the start.
LEMMA PageInit ==
  ASSUME EditorAssumption, Init
  PROVE  InPlace
<1>1. Server
  BY DEF EditorAssumption, Init, Server
<1>2. Shown
  BY Textarea DEF EditorAssumption, Init, Shown
<1>3. Waiting
  BY DEF EditorAssumption, Init, Waiting
<1>4. Locked
  BY DEF Init, Locked, LockHeld, Checked, InService, At
<1> QED BY <1>1, <1>2, <1>3, <1>4 DEF InPlace

\* Whoever else has access changes the server's files only, and typing only the
\* page.
LEMMA OthersPreserve ==
  ASSUME EditorAssumption, InPlace, Others \/ Type
  PROVE  InPlace'
<1>1. CASE Others
  <2>1. PICK p \in Paths, file \in Stamps \cup {Absent} :
          /\ remote' = [remote EXCEPT ![p] = file]
          /\ overtaken' = overtaken \cup
               {s \in Slots : At(s, "write", "checked") /\ calls[s].path = p}
    BY <1>1 DEF Others
  <2>2. UNCHANGED <<page, calls, seen>>
    BY <1>1 DEF Others
  <2>3. Server'
    BY <2>1 DEF InPlace, Server
  <2>4. Shown'
    BY <2>2 DEF InPlace, page, Shown
  <2>5. Waiting'
    BY <2>2 DEF InPlace, Waiting, CallInPlace
  <2>6. LockHeld'
    BY <2>2 DEF InPlace, Locked, LockHeld, InService
  <2>7. Checked'
    <3>1. ASSUME NEW s \in Slots,
                 At(s, "write", "checked")', (calls[s].op = "save")',
                 (~calls[s].force)'
          PROVE  (s \in overtaken \/ remote[calls[s].path] \in seen)'
      <4>1. /\ At(s, "write", "checked") /\ calls[s].op = "save"
            /\ ~calls[s].force /\ calls'[s] = calls[s]
        BY <2>2, <3>1 DEF At
      <4>2. s \in overtaken \/ remote[calls[s].path] \in seen
        BY <4>1 DEF InPlace, Locked, Checked
      <4>3. calls[s].path # p => remote'[calls[s].path] = remote[calls[s].path]
        BY <2>1 DEF InPlace, Server
      <4> QED BY <2>1, <2>2, <4>1, <4>2, <4>3
    <3> QED BY <3>1 DEF Checked
  <2> QED BY <2>3, <2>4, <2>5, <2>6, <2>7 DEF InPlace, Locked
<1>2. CASE Type
  <2>1. Server' /\ Locked'
    BY <1>2 DEF InPlace, Type, Server, Locked, LockHeld, InService, Checked, At
  <2>2. Shown'
    <3>1. PICK t \in Editable : buffer' = t /\ dirty' = (t # current.content)
      BY <1>2 DEF Type
    <3>2. current # Absent /\ UNCHANGED <<current, displayed, selected, base, seen>>
      BY <1>2 DEF Type
    <3>3. t = current.content => t = Normalized(current.content)
      BY Textarea
    <3> QED BY <3>1, <3>2, <3>3 DEF InPlace, Shown
  <2>3. Waiting'
    BY <1>2 DEF InPlace, Type, Waiting, CallInPlace
  <2> QED BY <2>1, <2>2, <2>3 DEF InPlace
<1> QED BY <1>1, <1>2

\* openFile selects a file and asks about it, or leaves the page as it is.
LEMMA OpenInPlace ==
  ASSUME EditorAssumption, Waiting, NEW s \in Slots, NEW p \in Paths,
         NEW force \in BOOLEAN, Open(s, p, force), UNCHANGED seen
  PROVE  Waiting' /\ Quiet(s) /\ selected' \in {p, selected}
<1>1. selected' \in {p, selected}
  BY DEF Open
<1>2. Done(s) => Waiting' /\ Quiet(s)
  BY DoneInPlace
<1>3. /\ Ask("open", "stat", p) \in Calls
      /\ CallInPlace(Ask("open", "stat", p))
      /\ Ask("open", "stat", p).stage = "asked"
  BY AskInPlace DEF Handlers
<1>4. Await(s, Ask("open", "stat", p)) => Waiting' /\ Quiet(s)
  BY <1>3, AwaitInPlace, AwaitQuiet
<1> QED BY <1>1, <1>2, <1>4 DEF Open

\* What the user does to the tree and the buttons.
LEMMA UserPreserves ==
  ASSUME EditorAssumption, InPlace, NEW s \in Slots, User(s)
  PROVE  InPlace'
<1>1. Server /\ Shown /\ Waiting /\ Locked
  BY DEF InPlace
<1>2. ASSUME NEW p \in Paths, Click(s, p) PROVE Server' /\ Shown' /\ Waiting' /\ Quiet(s)
  <2>1. Waiting' /\ Quiet(s) /\ selected' \in {p, selected}
    BY <1>1, <1>2, OpenInPlace DEF Click
  <2>2. Server' /\ Shown'
    BY <1>1, <1>2, <2>1 DEF Click, Server, Shown
  <2> QED BY <2>1, <2>2
<1>3. ASSUME NEW p \in Paths, CreateFile(s, p) PROVE Server' /\ Shown' /\ Waiting' /\ Quiet(s)
  <2>1. /\ Ask("create", "stat", p) \in Calls
        /\ CallInPlace(Ask("create", "stat", p))
        /\ Ask("create", "stat", p).stage = "asked"
    BY AskInPlace DEF Handlers
  <2>2. Waiting' /\ Quiet(s)
    BY <1>1, <1>3, <2>1, AwaitInPlace, AwaitQuiet DEF CreateFile
  <2>3. Server' /\ Shown'
    BY <1>1, <1>3 DEF CreateFile, Server, Shown, page
  <2> QED BY <2>2, <2>3
<1>4. ASSUME NEW p \in Paths, RenameSelected(s, p) PROVE Server' /\ Shown' /\ Waiting' /\ Quiet(s)
  <2> DEFINE r == Request("rename", "move", selected, p, Empty, Absent, FALSE)
  <2>1. r \in Calls /\ CallInPlace(r) /\ r.stage = "asked"
    BY <1>1, <1>4, Textarea DEF RenameSelected, Shown, EditorAssumption, Request, Calls,
       Handlers, CallInPlace
  <2>2. Waiting' /\ Quiet(s)
    BY <1>1, <1>4, <2>1, AwaitInPlace, AwaitQuiet DEF RenameSelected
  <2>3. Server' /\ Shown'
    BY <1>1, <1>4 DEF RenameSelected, Server, Shown, page
  <2> QED BY <2>2, <2>3
<1>5. ASSUME Save(s) PROVE Server' /\ Shown' /\ Waiting' /\ Quiet(s)
  <2>1. /\ SaveRequest(FALSE) \in Calls
        /\ CallInPlace(SaveRequest(FALSE))
        /\ SaveRequest(FALSE).stage = "asked"
    BY <1>1, <1>5, SaveInPlace DEF Save
  <2>2. Waiting' /\ Quiet(s)
    BY <1>1, <1>5, <2>1, AwaitInPlace, AwaitQuiet DEF Save
  <2>3. Server' /\ Shown'
    BY <1>1, <1>5 DEF Save, Server, Shown, page
  <2> QED BY <2>2, <2>3
<1>6. ASSUME RefreshSelection(s) PROVE Server' /\ Shown' /\ Waiting' /\ Quiet(s)
  <2>1. /\ Listing("refresh", Absent) \in Calls
        /\ CallInPlace(Listing("refresh", Absent))
        /\ Listing("refresh", Absent).stage = "answered"
    BY ListingInPlace
  <2>2. Waiting' /\ Quiet(s)
    BY <1>1, <1>6, <2>1, AwaitInPlace, AwaitQuiet DEF RefreshSelection
  <2>3. Server' /\ Shown'
    BY <1>1, <1>6 DEF RefreshSelection, Server, Shown, page
  <2> QED BY <2>2, <2>3
<1>7. ASSUME DeleteSelected(s) PROVE Server' /\ Shown' /\ Waiting' /\ Quiet(s)
  <2>1. /\ Ask("delete", "delete", selected) \in Calls
        /\ CallInPlace(Ask("delete", "delete", selected))
        /\ Ask("delete", "delete", selected).stage = "asked"
    BY <1>1, <1>7, AskInPlace DEF DeleteSelected, Shown, Handlers
  <2>2. Waiting' /\ Quiet(s)
    BY <1>1, <1>7, <2>1, AwaitInPlace, AwaitQuiet DEF DeleteSelected
  <2>3. Server' /\ Shown'
    BY <1>1, <1>7 DEF DeleteSelected, Server, Shown, page
  <2> QED BY <2>2, <2>3
<1>8. Server' /\ Shown' /\ Waiting' /\ Quiet(s)
  BY <1>2, <1>3, <1>4, <1>5, <1>6, <1>7 DEF User
<1>9. UNCHANGED <<remote, overtaken, seen>>
  BY DEF User, Click, CreateFile, RenameSelected, Save, RefreshSelection,
         DeleteSelected
<1>10. Locked'
  BY <1>1, <1>8, <1>9, QuietLocked
<1> QED BY <1>8, <1>10 DEF InPlace

\* A request that is not answered is one of a handler, about files.
LEMMA AskedInPlace ==
  ASSUME Waiting, NEW s \in Slots, NEW route, NEW stage, At(s, route, stage),
         route # "list", stage # "answered"
  PROVE  /\ calls[s] # Absent /\ calls[s].stage = stage
         /\ calls[s] \in Calls /\ calls[s].route = route
         /\ calls[s].path \in Paths /\ calls[s].to \in Paths
         /\ calls[s].text \in Editable
         /\ CallInPlace(calls[s])
<1>1. calls[s] # Absent /\ calls[s].stage = stage /\ calls[s].route = route
  BY DEF At
<1>2. calls[s] \in Calls /\ CallInPlace(calls[s])
  BY <1>1 DEF Waiting
<1>3. calls[s].op # "refresh"
  BY <1>1, <1>2 DEF CallInPlace, Handlers
<1> QED BY <1>1, <1>2, <1>3 DEF CallInPlace, Calls

\* While one request is served, no other is.
LEMMA ServedAlone ==
  ASSUME Locked, NEW s \in Slots, NEW route,
         Begins(s, route) \/ \E stage \in {"found", "checked", "replaced"} :
                              At(s, route, stage)
  PROVE  \A t \in Slots \ {s} : ~InService(t)
BY DEF Locked, LockHeld, Begins, At, InService

\* A request that goes on under the lock keeps what was checked, and what it
\* checked itself holds.
LEMMA ProceedLocked ==
  ASSUME Locked, NEW s \in Slots, \A t \in Slots \ {s} : ~InService(t),
         \A t \in Slots \ {s} : calls'[t] = calls[t],
         (At(s, "write", "checked") /\ calls[s].op = "save" /\ ~calls[s].force
            => s \in overtaken \/ remote[calls[s].path] \in seen)'
  PROVE  Locked'
<1>1. \A t \in Slots \ {s} : ~InService(t)'
  BY DEF InService
<1>2. LockHeld'
  BY <1>1 DEF LockHeld
<1>3. \A t \in Slots \ {s} : ~At(t, "write", "checked")'
  BY <1>1 DEF InService, At
<1>4. Checked'
  BY <1>3 DEF Checked
<1> QED BY <1>2, <1>4 DEF Locked

\* Looking at a file, and reading it, keeps what waits in place.
LEMMA LookPreserves ==
  ASSUME EditorAssumption, Server, Waiting, Locked, NEW s \in Slots, UNCHANGED seen,
         ServeStat(s) \/ FindFile(s) \/ ReadFile(s)
  PROVE  Waiting' /\ Locked'
<1> DEFINE c == calls[s]
<1>1. UNCHANGED <<remote, overtaken>>
  BY DEF ServeStat, FindFile, ReadFile
<1>2. Waiting' /\ Quiet(s) => Waiting' /\ Locked'
  BY <1>1, QuietLocked
<1>3. CASE ServeStat(s)
  <2>1. At(s, "stat", "asked")
    BY <1>3 DEF ServeStat, Begins
  <2>2. c # Absent /\ c.stage = "asked" /\ c.route = "stat" /\ CallInPlace(c)
    BY <2>1, AskedInPlace
  <2>3. c.op # "save"
    BY <2>2 DEF CallInPlace, Handlers
  <2>4. PICK code \in {"OK", "NOT_FOUND", "TOO_LARGE"} : Answers(s, code, Absent)
    BY <1>3 DEF ServeStat
  <2>5. Waiting' /\ Quiet(s)
    BY <2>2, <2>3, <2>4, AnswerInPlace
  <2> QED BY <1>2, <2>5
<1>4. CASE FindFile(s)
  <2>1. At(s, "read", "asked")
    BY <1>4 DEF FindFile, Begins
  <2>2. c # Absent /\ c.stage = "asked" /\ c.path \in Paths /\ c.route = "read"
    BY <2>1, AskedInPlace
  <2>3. PICK file \in Stamps : Proceeds(s, "found", file)
    BY <1>4, <2>2 DEF FindFile, Server
  <2>4. /\ Waiting' /\ \A t \in Slots \ {s} : calls'[t] = calls[t]
        /\ calls'[s].stage = "found"
    BY <2>2, <2>3, ProceedInPlace
  <2>5. ~At(s, "write", "checked")'
    BY <2>4 DEF At
  <2>6. \A t \in Slots \ {s} : ~InService(t)
    BY <1>4, ServedAlone DEF FindFile
  <2> QED BY <2>4, <2>5, <2>6, ProceedLocked
<1>5. CASE ReadFile(s)
  <2>1. At(s, "read", "found")
    BY <1>5 DEF ReadFile
  <2>2. c # Absent /\ c.stage = "found" /\ c.route = "read" /\ CallInPlace(c)
    BY <2>1, AskedInPlace
  <2>3. c.op # "save" /\ c.found \in Stamps
    BY <2>2 DEF CallInPlace, Handlers
  <2>4. PICK t \in Texts \cup {Opaque} : Answers(s, "OK", [stamp |-> c.found, text |-> t])
    BY <1>5 DEF ReadFile
  <2>5. [stamp |-> c.found, text |-> t] \in Files
    BY <2>3 DEF Files
  <2>6. Waiting' /\ Quiet(s)
    BY <2>2, <2>3, <2>4, <2>5, AnswerInPlace
  <2> QED BY <1>2, <2>6
<1> QED BY <1>3, <1>4, <1>5

\* An unforced save that passes its check found a stamp the editor was told of,
\* and so it is until the file is replaced.
LEMMA WritePreserves ==
  ASSUME EditorAssumption, Server, Shown, Waiting, Locked, NEW s \in Slots,
         UNCHANGED seen, CheckWrite(s) \/ ReplaceFile(s) \/ ReportWrite(s)
  PROVE  Server' /\ Waiting' /\ Locked'
<1> DEFINE c == calls[s]
<1>1. PICK stage \in {"asked", "checked", "replaced"} : At(s, "write", stage)
  BY DEF CheckWrite, ReplaceFile, ReportWrite, Begins
<1>2. /\ c # Absent /\ c.stage = stage /\ c.path \in Paths /\ c.route = "write"
      /\ c.text \in Editable /\ CallInPlace(c)
  BY <1>1, AskedInPlace
<1>3. \A t \in Slots \ {s} : ~InService(t)
  BY ServedAlone DEF CheckWrite, ReplaceFile, ReportWrite
<1>4. CASE CheckWrite(s)
  <2>1. UNCHANGED <<remote, overtaken>> /\ Server' /\ stage = "asked"
    BY <1>2, <1>4 DEF CheckWrite, Server, Begins, At
  <2>2. CASE Answers(s, "CONFLICT", Absent)
    <3>1. Waiting' /\ Quiet(s)
      BY <1>2, <2>1, <2>2, AnswerInPlace
    <3> QED BY <2>1, <3>1, QuietLocked
  <2>3. CASE /\ Proceeds(s, "checked", Absent)
             /\ ~(c.expected # Absent /\ ~c.force /\ remote[c.path] # c.expected)
    <3>1. /\ Waiting' /\ \A t \in Slots \ {s} : calls'[t] = calls[t]
          /\ calls'[s].op = c.op /\ calls'[s].path = c.path
          /\ calls'[s].force = c.force
      BY <1>2, <2>1, <2>3, ProceedInPlace
    <3>2. ASSUME c.op = "save", ~c.force PROVE remote[c.path] \in seen
      <4>1. c.expected \in seen /\ c.expected # Absent
        BY <1>2, <2>1, <3>2 DEF CallInPlace, Shown, EditorAssumption
      <4> QED BY <2>3, <3>2, <4>1
    <3>3. (At(s, "write", "checked") /\ calls[s].op = "save" /\ ~calls[s].force
             => s \in overtaken \/ remote[calls[s].path] \in seen)'
      BY <2>1, <3>1, <3>2
    <3> QED BY <1>3, <2>1, <3>1, <3>3, ProceedLocked
  <2> QED BY <1>4, <2>2, <2>3 DEF CheckWrite
<1>5. CASE ReplaceFile(s)
  <2>1. Server'
    BY <1>2, <1>5 DEF ReplaceFile, Server
  <2>2. /\ Waiting' /\ \A t \in Slots \ {s} : calls'[t] = calls[t]
        /\ calls'[s].stage = "replaced"
    BY <1>2, <1>5, ProceedInPlace DEF ReplaceFile
  <2>3. ~At(s, "write", "checked")'
    BY <2>2 DEF At
  <2> QED BY <1>3, <2>1, <2>2, <2>3, ProceedLocked
<1>6. CASE ReportWrite(s)
  <2>1. UNCHANGED <<remote, overtaken>> /\ Server'
    BY <1>6 DEF ReportWrite, Server
  <2>2. remote[c.path] \in Stamps
    BY <1>2, <1>6 DEF ReportWrite, Server
  <2> DEFINE file == IF c.op = "save"
                     THEN [stamp |-> remote[c.path], text |-> c.text] ELSE Absent
  <2>3. /\ file \in Files \cup {Absent} /\ (c.op = "save" => file \in Files)
        /\ (c.op = "save" => file.text \in Editable)
    BY <1>2, <2>2, Textarea DEF Files
  <2>4. Answers(s, "OK", file)
    BY <1>6 DEF ReportWrite
  <2> HIDE DEF file
  <2>5. Waiting' /\ Quiet(s)
    BY <1>2, <2>3, <2>4, AnswerInPlace
  <2> QED BY <2>1, <2>5, QuietLocked
<1> QED BY <1>4, <1>5, <1>6

\* So is what waits when a file is moved or removed, or a request fails.
LEMMA MovePreserves ==
  ASSUME EditorAssumption, Server, Waiting, Locked, NEW s \in Slots, UNCHANGED seen,
         CheckMove(s) \/ MoveFile(s) \/ ServeDelete(s) \/ ServeFails(s)
  PROVE  Server' /\ Waiting' /\ Locked'
<1> DEFINE c == calls[s]
<1>1. CASE CheckMove(s)
  <2>1. UNCHANGED <<remote, overtaken>> /\ Server' /\ At(s, "move", "asked")
    BY <1>1 DEF CheckMove, Server, Begins
  <2>2. c # Absent /\ c.stage = "asked" /\ c.route = "move"
    BY <2>1, AskedInPlace
  <2>3. /\ Waiting' /\ \A t \in Slots \ {s} : calls'[t] = calls[t]
        /\ calls'[s].route = "move"
    BY <1>1, <2>2, ProceedInPlace DEF CheckMove
  <2>4. ~At(s, "write", "checked")'
    BY <2>3 DEF At
  <2>5. \A t \in Slots \ {s} : ~InService(t)
    BY <1>1, ServedAlone DEF CheckMove
  <2> QED BY <2>1, <2>3, <2>4, <2>5, ProceedLocked
<1>2. CASE MoveFile(s) \/ ServeDelete(s)
  <2>1. PICK route \in {"move", "delete"}, stage \in {"asked", "checked"} :
          At(s, route, stage)
    BY <1>2 DEF MoveFile, ServeDelete, Begins
  <2>2. /\ c # Absent /\ c.stage = stage /\ c.route = route
        /\ c.path \in Paths /\ c.to \in Paths /\ CallInPlace(c)
    BY <2>1, AskedInPlace
  <2>3. c.op # "save"
    BY <2>2 DEF CallInPlace, Handlers
  <2>4. Server' /\ Answers(s, "OK", Absent)
    BY <1>2, <2>2 DEF MoveFile, ServeDelete, Server
  <2>5. Waiting' /\ Quiet(s)
    BY <2>2, <2>3, <2>4, AnswerInPlace
  <2>6. \A t \in Slots \ {s} : ~InService(t)
    BY <1>2, ServedAlone DEF MoveFile, ServeDelete
  <2> QED BY <2>4, <2>5, <2>6, QuietLocked
<1>3. CASE ServeFails(s)
  <2>1. /\ Done(s) /\ UNCHANGED remote /\ overtaken' = overtaken \ {s}
    BY <1>3 DEF ServeFails
  <2>2. Waiting' /\ Quiet(s)
    BY <2>1, DoneInPlace
  <2>3. Server'
    BY <2>1 DEF Server
  <2> QED BY <2>1, <2>2, <2>3, QuietLocked
<1> QED BY <1>1, <1>2, <1>3

\* The service's step keeps the handler it answers in place.
LEMMA ServePreserves ==
  ASSUME EditorAssumption, InPlace, NEW s \in Slots, Serve(s)
  PROVE  InPlace'
<1>1. Server /\ Shown /\ Waiting /\ Locked /\ UNCHANGED <<page, seen>>
  BY DEF Serve, InPlace
<1>2. Shown'
  BY <1>1 DEF Shown, page
<1>3. CASE ServeStat(s) \/ FindFile(s) \/ ReadFile(s)
  <2>1. Server'
    BY <1>1, <1>3 DEF ServeStat, FindFile, ReadFile, Server
  <2>2. Waiting' /\ Locked'
    BY <1>1, <1>3, LookPreserves
  <2> QED BY <1>2, <2>1, <2>2 DEF InPlace
<1>4. CASE CheckWrite(s) \/ ReplaceFile(s) \/ ReportWrite(s)
  <2>1. Server' /\ Waiting' /\ Locked'
    BY <1>1, <1>4, WritePreserves
  <2> QED BY <1>2, <2>1 DEF InPlace
<1>5. CASE CheckMove(s) \/ MoveFile(s) \/ ServeDelete(s) \/ ServeFails(s)
  <2>1. Server' /\ Waiting' /\ Locked'
    BY <1>1, <1>5, MovePreserves
  <2> QED BY <1>2, <2>1 DEF InPlace
<1> QED BY <1>3, <1>4, <1>5 DEF Serve

\* What a handler finds in its reply.
LEMMA RepliedInPlace ==
  ASSUME Waiting, NEW s \in Slots, NEW op, NEW route, Replied(s, op, route)
  PROVE  /\ calls[s] \in Calls /\ calls[s].reply \in Replies
         /\ op \notin {"save", "refresh"} =>
              calls[s].path \in Paths /\ calls[s].to \in Paths
         /\ (route = "read" \/ (op = "save" /\ OK(s))) => File(s) \in Files
         /\ op = "save" /\ OK(s) => File(s).text \in Editable
<1>1. /\ calls[s] # Absent /\ calls[s].stage = "answered"
      /\ calls[s].op = op /\ calls[s].route = route
  BY DEF Replied, At
<1>2. calls[s] \in Calls /\ CallInPlace(calls[s]) /\ calls[s].reply # Absent
  BY <1>1 DEF Waiting, CallInPlace
<1> QED BY <1>1, <1>2 DEF Calls, CallInPlace, OK, File

\* A file that cannot be edited leaves an empty page.
LEMMA ReadonlyShown ==
  ASSUME EditorAssumption, Shown, NEW p \in Paths, ShowReadonly(p), UNCHANGED seen
  PROVE  Shown'
BY Textarea DEF ShowReadonly, Shown

\* Going on with the answer about a file to open: it is read, or shown as one
\* that cannot be edited.
LEMMA OpenStatPreserves ==
  ASSUME EditorAssumption, Shown, Waiting, NEW s \in Slots, OpenStat(s)
  PROVE  Shown' /\ Waiting' /\ Quiet(s)
<1> DEFINE p == calls[s].path
<1>1. p \in Paths /\ UNCHANGED seen
  BY RepliedInPlace DEF OpenStat
<1>2. /\ Ask("open", "read", p) \in Calls
      /\ CallInPlace(Ask("open", "read", p))
      /\ Ask("open", "read", p).stage = "asked"
  BY <1>1, AskInPlace DEF Handlers
<1>3. Await(s, Ask("open", "read", p)) => Waiting' /\ Quiet(s)
  BY <1>1, <1>2, AwaitInPlace, AwaitQuiet
<1>4. Done(s) => Waiting' /\ Quiet(s)
  BY <1>1, DoneInPlace
<1>5. UNCHANGED page => Shown'
  BY <1>1 DEF page, Shown
<1>6. ShowReadonly(p) => Shown'
  BY <1>1, ReadonlyShown
<1> QED BY <1>3, <1>4, <1>5, <1>6 DEF OpenStat

\* Going on with a file that was read.
LEMMA OpenReadPreserves ==
  ASSUME EditorAssumption, Shown, Waiting, NEW s \in Slots, OpenRead(s)
  PROVE  Shown' /\ Waiting' /\ Quiet(s)
<1> DEFINE p == calls[s].path
           file == File(s)
<1>1. p \in Paths /\ file \in Files
  BY RepliedInPlace DEF OpenRead
<1>2. Done(s) /\ seen \subseteq seen'
  BY DEF OpenRead
<1>3. Waiting' /\ Quiet(s)
  BY <1>2, DoneInPlace
<1>4. CASE file.text = Opaque
  <2>1. ShowReadonly(p) /\ UNCHANGED seen
    BY <1>4 DEF OpenRead
  <2> QED BY <1>1, <1>3, <2>1, ReadonlyShown
<1>5. CASE file.text # Opaque
  <2>1. ShowFile(p, file) /\ seen' = seen \cup {file.stamp}
    BY <1>5 DEF OpenRead
  <2>2. file.stamp \in Stamps /\ file.text \in Texts
    BY <1>1, <1>5 DEF Files
  <2>3. Normalized(file.text) \in Editable
    BY <2>2, Textarea
  <2> HIDE DEF p, file
  <2>4. /\ current' = [path |-> p, stamp |-> file.stamp, content |-> file.text]
        /\ displayed' = p /\ dirty' = FALSE /\ selected' = selected
        /\ buffer' = Normalized(file.text) /\ base' = Normalized(file.text)
    BY <2>1 DEF ShowFile
  <2>5. /\ current' \in Opened /\ current'.path = p
        /\ current'.stamp = file.stamp /\ current'.content = file.text
    BY <1>1, <2>2, <2>4 DEF Opened
  <2>6. Shown'
    BY <1>1, <2>1, <2>2, <2>3, <2>4, <2>5 DEF Shown
  <2> QED BY <1>3, <2>6
<1> QED BY <1>4, <1>5

\* Going on with the answer to a save, whatever is shown by now.
LEMMA SavePreserves ==
  ASSUME EditorAssumption, Shown, Waiting, NEW s \in Slots,
         Saved(s) \/ SaveRefused(s)
  PROVE  Shown' /\ Waiting' /\ Quiet(s)
<1>1. CASE Saved(s)
  <2>1. Waiting' /\ Quiet(s)
    BY <1>1, DoneInPlace DEF Saved
  <2>2. File(s) \in Files /\ File(s).text \in Editable
    BY <1>1, RepliedInPlace DEF Saved
  <2>3. File(s).stamp \in Stamps /\ seen' = seen \cup {File(s).stamp}
    BY <1>1, <2>2 DEF Saved, Files
  <2>4. CASE current = Absent
    BY <1>1, <2>1, <2>3, <2>4 DEF Saved, page, Shown
  <2>5. CASE current # Absent
    <3>1. /\ current' = [current EXCEPT !.content = buffer,
                                       !.stamp = File(s).stamp]
          /\ dirty' = FALSE /\ base' = File(s).text
          /\ UNCHANGED <<displayed, selected, buffer>>
      BY <1>1, <2>5 DEF Saved
    <3>2. current \in Opened /\ buffer \in Editable
      BY <2>5 DEF Shown
    <3>3. /\ current' \in Opened /\ current'.path = current.path
          /\ current'.content = buffer /\ current'.stamp = File(s).stamp
      BY <2>3, <3>1, <3>2, Textarea DEF Opened
    <3>4. Normalized(current'.content) = buffer'
      BY <3>1, <3>2, <3>3, Textarea
    <3>5. Shown'
      <4>1. /\ dirty' = FALSE /\ buffer' \in Editable /\ base' \in Editable
            /\ seen' \subseteq Stamps
        BY <2>2, <2>3, <3>1 DEF Shown
      <4>2. displayed' = current'.path /\ current'.stamp \in seen'
        BY <2>3, <2>5, <3>1, <3>3 DEF Shown
      <4>3. /\ displayed' \in Paths \cup {Absent}
            /\ selected' \in Paths \cup {Absent}
        BY <3>1 DEF Shown
      <4> QED BY <3>3, <3>4, <4>1, <4>2, <4>3 DEF Shown
    <3> QED BY <2>1, <3>5
  <2> QED BY <2>4, <2>5
<1>2. CASE SaveRefused(s)
  <2>1. Shown'
    BY <1>2 DEF SaveRefused, page, Shown
  <2>2. Done(s) => Waiting' /\ Quiet(s)
    BY <1>2, DoneInPlace DEF SaveRefused
  <2>3. current # Absent => /\ SaveRequest(TRUE) \in Calls
                            /\ CallInPlace(SaveRequest(TRUE))
                            /\ SaveRequest(TRUE).stage = "asked"
    BY SaveInPlace
  <2>4. current # Absent /\ Await(s, SaveRequest(TRUE)) => Waiting' /\ Quiet(s)
    BY <1>2, <2>3, AwaitInPlace, AwaitQuiet DEF SaveRefused
  <2> QED BY <1>2, <2>1, <2>2, <2>4 DEF SaveRefused
<1> QED BY <1>1, <1>2

\* Going on after the directory was listed again, or a new file looked up or
\* made.
LEMMA ListPreserves ==
  ASSUME EditorAssumption, Shown, Waiting, NEW s \in Slots,
         Refreshed(s) \/ Created(s)
  PROVE  Shown' /\ Waiting' /\ Quiet(s)
<1> DEFINE p == calls[s].path
<1>1. UNCHANGED <<current, displayed, dirty, buffer, base, seen>>
  BY DEF Refreshed, Created, page
<1>2. Done(s) => Waiting' /\ Quiet(s)
  BY <1>1, DoneInPlace
<1>3. CASE Refreshed(s)
  <2>1. ASSUME selected # Absent /\ ~dirty
        PROVE  Waiting' /\ Quiet(s) /\ selected' = selected
    <3>1. selected \in Paths /\ Open(s, selected, TRUE)
      BY <1>3, <2>1 DEF Refreshed, Shown
    <3>2. Waiting' /\ Quiet(s) /\ selected' = selected
      BY <1>1, <3>1, OpenInPlace
    <3> QED BY <3>2
  <2>2. ASSUME ~(selected # Absent /\ ~dirty)
        PROVE  Waiting' /\ Quiet(s) /\ selected' = selected
    BY <1>2, <1>3, <2>2 DEF Refreshed
  <2>3. selected' = selected => Shown'
    BY <1>1 DEF Shown
  <2> QED BY <2>1, <2>2, <2>3
<1>4. CASE Created(s)
  <2>1. p \in Paths
    <3>1. PICK route \in {"stat", "write", "list"} : Replied(s, "create", route)
      BY <1>4 DEF Created
    <3> QED BY <3>1, RepliedInPlace
  <2>2. /\ Ask("create", "write", p) \in Calls
        /\ CallInPlace(Ask("create", "write", p))
        /\ Ask("create", "write", p).stage = "asked"
    BY <2>1, AskInPlace DEF Handlers
  <2>3. Await(s, Ask("create", "write", p)) => Waiting' /\ Quiet(s)
    BY <1>1, <2>2, AwaitInPlace, AwaitQuiet
  <2>4. /\ Listing("create", p) \in Calls
        /\ CallInPlace(Listing("create", p))
        /\ Listing("create", p).stage = "answered"
    BY <2>1, ListingInPlace
  <2>5. Await(s, Listing("create", p)) => Waiting' /\ Quiet(s)
    BY <1>1, <2>4, AwaitInPlace, AwaitQuiet
  <2>6. UNCHANGED page => Shown'
    BY <1>1 DEF page, Shown
  <2>7. Open(s, p, FALSE) => Waiting' /\ Quiet(s) /\ selected' \in {p, selected}
    BY <1>1, <2>1, OpenInPlace
  <2>8. Open(s, p, FALSE) => Shown'
    BY <1>1, <2>1, <2>7 DEF Shown
  <2> QED BY <1>2, <1>4, <2>3, <2>5, <2>6, <2>7, <2>8 DEF Created
<1> QED BY <1>3, <1>4

\* Going on after a file was renamed or removed: what is on display follows.
LEMMA TreePreserves ==
  ASSUME EditorAssumption, Shown, Waiting, NEW s \in Slots,
         Renamed(s) \/ Deleted(s)
  PROVE  Shown' /\ Waiting' /\ Quiet(s)
<1> DEFINE c == calls[s]
<1>1. Done(s) /\ UNCHANGED seen
  BY DEF Renamed, Deleted
<1>2. Waiting' /\ Quiet(s)
  BY <1>1, DoneInPlace
<1>3. c.path \in Paths /\ c.to \in Paths
  BY RepliedInPlace DEF Renamed, Deleted
<1>4. CASE Renamed(s)
  <2>1. CASE displayed = c.path /\ current # Absent
    <3>1. /\ current' = [current EXCEPT !.path = c.to] /\ displayed' = c.to
          /\ selected' = c.to /\ UNCHANGED <<dirty, buffer, base>>
      BY <1>4, <2>1 DEF Renamed
    <3>2. /\ current' \in Opened /\ current'.path = c.to
          /\ current'.content = current.content
          /\ current'.stamp = current.stamp
      BY <1>3, <2>1, <3>1 DEF Shown, Opened
    <3> HIDE DEF c
    <3>3. Shown'
      BY <1>1, <1>3, <2>1, <3>1, <3>2 DEF Shown, EditorAssumption
    <3> QED BY <1>2, <3>3
  <2>2. CASE ~(displayed = c.path /\ current # Absent)
    <3>1. current' = current /\ (current # Absent => displayed' = displayed)
      BY <1>4, <2>2 DEF Renamed
    <3>2. Shown'
      BY <1>1, <1>3, <1>4, <3>1 DEF Renamed, Shown
    <3> QED BY <1>2, <3>2
  <2> QED BY <2>1, <2>2
<1>5. CASE Deleted(s)
  <2>1. Shown'
    BY <1>1, <1>5, Textarea DEF Deleted, ClearEditor, Shown
  <2> QED BY <1>2, <2>1
<1> QED BY <1>4, <1>5

\* What a handler does with its reply keeps the page in step with what waits.
LEMMA ResumePreserves ==
  ASSUME EditorAssumption, InPlace, NEW s \in Slots, Resume(s)
  PROVE  InPlace'
<1>1. Server' /\ Shown /\ Waiting /\ Locked /\ UNCHANGED <<remote, overtaken>>
  BY DEF Resume, InPlace, Server
<1>2. Shown' /\ Waiting' /\ Quiet(s)
  BY <1>1, OpenStatPreserves, OpenReadPreserves, SavePreserves, ListPreserves,
     TreePreserves DEF Resume
<1>3. seen \subseteq seen'
  BY DEF Resume, OpenStat, OpenRead, Saved, SaveRefused, Refreshed, Created,
         Renamed, Deleted
<1>4. Locked'
  BY <1>1, <1>2, <1>3, QuietLocked
<1> QED BY <1>1, <1>2, <1>4 DEF InPlace

\* Every step keeps the invariant.
LEMMA PageStep ==
  ASSUME EditorAssumption, InPlace, [Next]_vars
  PROVE  InPlace'
<1>1. CASE UNCHANGED vars
  <2>1. /\ UNCHANGED <<remote, overtaken, calls, seen>>
        /\ UNCHANGED <<current, displayed, selected, dirty, buffer, base>>
    BY <1>1 DEF vars, page
  <2>2. Server' /\ Shown' /\ Waiting'
    BY <2>1 DEF InPlace, Server, Shown, Waiting, CallInPlace
  <2>3. Locked'
    BY <2>1 DEF InPlace, Locked, LockHeld, Checked, InService, At
  <2> QED BY <2>2, <2>3 DEF InPlace
<1>2. CASE Others \/ Type
  BY <1>2, OthersPreserve
<1>3. ASSUME NEW s \in Slots, User(s) \/ Serve(s) \/ Resume(s) PROVE InPlace'
  BY <1>3, UserPreserves, ServePreserves, ResumePreserves
<1> QED BY <1>1, <1>2, <1>3 DEF Next

\* Always: the page agrees with itself, every handler that waits asked for what
\* its part of app.js asks for, the service serves one request at a time
\* (web.py call), and what passed op_write_file's check is as it was then,
\* unless others have changed it.
THEOREM PageInvariance == Spec => []PageInv
<1>1. Init => InPlace
  BY EditorAssumption, PageInit
<1>2. InPlace /\ [Next]_vars => InPlace'
  BY EditorAssumption, PageStep
<1>3. InPlace => PageInv
  BY Parts
<1> QED BY <1>1, <1>2, <1>3, PTL DEF Spec

\* In whatever order replies arrive (app.js openFile, saveFile, renameSelected,
\* deleteSelected): what is marked as unsaved differs from the record, what is
\* not is the record's text as a textarea holds it, and the path and the stamp
\* on display are the record's.
THEOREM PageAgreesWithItself == Spec => []EditorInv
<1>1. PageInv => EditorInv
  BY DEF PageInv
<1> QED BY <1>1, PageInvariance, PTL

\* However replies overtake each other and others write: unless the user forces
\* it, a save (app.js saveFile, op_write_file) replaces a file only if it
\* carries a stamp this editor was told of, or was changed after the check.
THEOREM SavesReplaceWhatWasSeen == Spec => SavesOverSeen
<1>1. InPlace =>
        [\A s \in Slots :
           At(s, "write", "checked") /\ calls[s].op = "save" /\ ~calls[s].force
             /\ ReplaceFile(s)
           => \/ s \in overtaken
              \/ remote[calls[s].path] \in seen]_vars
  BY DEF InPlace, Locked, Checked
<1>2. Init => InPlace
  BY EditorAssumption, PageInit
<1>3. InPlace /\ [Next]_vars => InPlace'
  BY EditorAssumption, PageStep
<1> QED BY <1>1, <1>2, <1>3, PTL DEF Spec, SavesOverSeen
=============================================================================
