----------------------------- MODULE ExecOutput -----------------------------
(***************************************************************************)
(* The output of one Exec job (sshbridge/exec_jobs.py): two reader threads *)
(* append decoded text to a bounded deque of events, the deque forgets its *)
(* oldest text, and a client reads it page by page with a cursor.          *)
(*                                                                         *)
(* A character is a position of its stream together with its UTF-8 width.  *)
(* Cursors count characters over both streams, in the order in which the   *)
(* readers got the lock; "written" remembers that order.                   *)
(***************************************************************************)
EXTENDS Integers, Sequences, FiniteSets, SequencesExt

CONSTANTS
  Width,       \* Width[s]: the widths of the characters of stream s
  ChunkChars,  \* most characters one read of a pipe decodes
  OutputLimit, \* output_limit_bytes
  PageSizes    \* values of max_bytes the client uses

Streams == DOMAIN Width

(* config.py admits no limit below 64 KiB and status no page size below 1. *)
ASSUME OutputAssumption ==
  /\ \A s \in Streams : Width[s] \in Seq(1..4)
  /\ ChunkChars \in Nat \ {0}
  /\ OutputLimit \in Nat /\ OutputLimit >= 4
  /\ PageSizes \subseteq Nat \ {0} /\ PageSizes # {}

VARIABLES
  written,    \* every character appended so far, by cursor
  sent,       \* how many characters of each stream its reader has decoded
  reader,     \* each _read_stream: "reading", "late" once its pipe was
              \* closed under it, "done"
  over,       \* the job is terminal
  events,     \* job.events
  nextCursor, \* job.next_event_cursor
  retained,   \* job.retained_bytes
  truncated,  \* job.output_truncated
  page,       \* the last reply of status, with the request it answers
  got,        \* what the client has read: <<cursor, character>>
  lossy       \* some reply had truncated_before

jobVars    == <<written, sent, reader, over, events, nextCursor, retained,
                truncated>>
clientVars == <<page, got, lossy>>
vars == <<jobVars, clientVars>>

Char(s, n) == [stream |-> s, n |-> n]
Characters == UNION {{Char(s, n) : n \in 1..Len(Width[s])} : s \in Streams}
WidthOf(c) == Width[c.stream][c.n]
Total(sizes) == FoldLeft(+, 0, sizes)
Bytes(text) == Total([i \in 1..Len(text) |-> WidthOf(text[i])])
Suffix(text, n) == SubSeq(text, n + 1, Len(text))

EndCursor(event) == event.start + Len(event.text) - 1

NoPage == [cursor |-> 0, max |-> 0, events |-> <<>>, next |-> 0,
           hasMore |-> TRUE, truncatedBefore |-> FALSE]

Init ==
  /\ written = <<>> /\ sent = [s \in Streams |-> 0]
  /\ reader = [s \in Streams |-> "reading"]
  /\ over = FALSE
  /\ events = <<>> /\ nextCursor = 1 /\ retained = 0 /\ truncated = FALSE
  /\ page = NoPage /\ got = {} /\ lossy = FALSE

-----------------------------------------------------------------------------
(* The readers.                                                            *)

(* Mutant: the first event left is not shortened.                          *)
Uncut(e, excess) == e
(* Mutant: the first event left goes altogether.                           *)
CutWhole(e, excess) ==
  [e EXCEPT !.start = @ + Len(e.text), !.text = <<>>, !.bytes = 0]

(* e without its shortest prefix of at least excess bytes                  *)
Cut(e, excess) ==
  LET n == CHOOSE m \in 1..Len(e.text) :
             /\ Bytes(SubSeq(e.text, 1, m)) >= excess
             /\ Bytes(SubSeq(e.text, 1, m - 1)) < excess
  IN  [e EXCEPT !.start = @ + n, !.text = Suffix(@, n),
                !.bytes = @ - Bytes(SubSeq(e.text, 1, n))]

(* the bytes left when the first k events are gone                         *)
LeftAfter(evs, bytes, k) == bytes - Total([i \in 1..k |-> evs[i].bytes])

(* how many events go whole: each that fits into the excess it meets       *)
WholeGone(evs, bytes) ==
  LET goes(i) == LET excess == LeftAfter(evs, bytes, i - 1) - OutputLimit
                 IN  excess > 0 /\ evs[i].bytes <= excess
  IN  CHOOSE k \in 0..Len(evs) :
        /\ \A i \in 1..k : goes(i)
        /\ k < Len(evs) => ~goes(k + 1)

(* _trim_output_locked: whole events leave from the front while they fit   *)
(* into the excess, then the first event left is cut by the rest of it.    *)
Trimmed(evs, bytes) ==
  LET k    == WholeGone(evs, bytes)
      left == LeftAfter(evs, bytes, k)
      rest == Suffix(evs, k)
      e    == Cut(rest[1], left - OutputLimit)
  IN  IF left <= OutputLimit \/ rest = <<>>
      THEN [events |-> rest, bytes |-> left, cut |-> k > 0]
      ELSE [events |-> [rest EXCEPT ![1] = e],
            bytes |-> left - rest[1].bytes + e.bytes, cut |-> TRUE]

(* _append_output: one event under the lock, then the trimming             *)
Append_output(s, text) ==
  LET event == [start |-> nextCursor, stream |-> s, text |-> text,
                bytes |-> Bytes(text)]
      kept  == Trimmed(Append(events, event), retained + event.bytes)
  IN  /\ events' = kept.events
      /\ retained' = kept.bytes
      /\ truncated' = (truncated \/ kept.cut)
      /\ nextCursor' = nextCursor + Len(text)
      /\ written' = written \o text

(* _read_stream: a chunk is read and decoded to k characters, any number,  *)
(* since a chunk may end inside a character.  After _join_readers closed   *)
(* the pipe under a reader, at most the read it was blocked in succeeds.   *)
ReadChunk(s, k) ==
  /\ reader[s] # "done" /\ sent[s] + k <= Len(Width[s])
  /\ Append_output(s, [i \in 1..k |-> Char(s, sent[s] + i)])
  /\ sent' = [sent EXCEPT ![s] = @ + k]
  /\ reader' = [reader EXCEPT ![s] = IF @ = "late" THEN "done" ELSE @]
  /\ UNCHANGED <<over, clientVars>>

(* end of file, or the read that fails on a closed pipe                    *)
ReaderEnds(s) ==
  /\ reader[s] # "done"
  /\ reader' = [reader EXCEPT ![s] = "done"]
  /\ UNCHANGED <<written, sent, over, events, nextCursor, retained, truncated,
                 clientVars>>

(* the child is gone: _join_readers waits for the readers until its        *)
(* deadline, closes the pipes, and the job becomes terminal                *)
FinishJob ==
  /\ ~over /\ over' = TRUE
  /\ reader' = [s \in Streams |-> IF reader[s] = "done" THEN "done" ELSE "late"]
  /\ UNCHANGED <<written, sent, events, nextCursor, retained, truncated,
                 clientVars>>

-----------------------------------------------------------------------------
(* status(cursor, max_bytes)                                               *)

(* the longest prefix of text that fits into room bytes                    *)
Fitting(text, room) ==
  SubSeq(text, 1, CHOOSE m \in 0..Len(text) :
                    /\ Bytes(SubSeq(text, 1, m)) <= room
                    /\ m < Len(text) => Bytes(SubSeq(text, 1, m + 1)) > room)

(* _status_snapshot_locked.  The loop over job.events reaches event i with *)
(* the room the candidates before it left, and takes what fits of its      *)
(* candidate: a candidate cut short, or none of it fitting, leaves no room *)
(* in this account either.  An event trimmed to nothing has no candidate.  *)
Skip(cursor, e) == IF cursor >= e.start THEN cursor - e.start + 1 ELSE 0

Candidate(cursor, e) == IF EndCursor(e) <= cursor THEN <<>>
                        ELSE Suffix(e.text, Skip(cursor, e))

(* Mutant: an event read in part is charged for all of its bytes.          *)
ChargedBeforeWhole(cursor, i) ==
  Total([k \in 1..(i - 1) |-> IF Candidate(cursor, events[k]) = <<>> THEN 0
                              ELSE events[k].bytes])

ChargedBefore(cursor, i) ==
  Total([k \in 1..(i - 1) |-> Bytes(Candidate(cursor, events[k]))])

(* Mutant: the loop breaks, not continues, at an event already read.       *)
SelectedUntilRead(cursor, maxBytes, i) ==
  IF \/ ChargedBefore(cursor, i) >= maxBytes
     \/ \E k \in 1..i : Candidate(cursor, events[k]) = <<>>
  THEN <<>>
  ELSE Fitting(Candidate(cursor, events[i]), maxBytes - ChargedBefore(cursor, i))

Selected(cursor, maxBytes, i) ==
  IF ChargedBefore(cursor, i) >= maxBytes THEN <<>>
  ELSE Fitting(Candidate(cursor, events[i]), maxBytes - ChargedBefore(cursor, i))

FirstCursor == IF events = <<>> THEN nextCursor ELSE events[1].start

(* Mutant: a gap of one character goes unreported.                         *)
TruncatedBeforeByTwo(cursor) == cursor < FirstCursor - 2
TruncatedBefore(cursor) == cursor < FirstCursor - 1

Entry(cursor, maxBytes, i) ==
  LET text == Selected(cursor, maxBytes, i)
  IN  [cursor |-> events[i].start + Skip(cursor, events[i]) + Len(text) - 1,
       stream |-> events[i].stream, text |-> text]

(* The reply lists the entries that have text, by their place in           *)
(* job.events; next_cursor is that of the last.                            *)
StatusPage(cursor, maxBytes) ==
  LET shown == {i \in 1..Len(events) : Selected(cursor, maxBytes, i) # <<>>}
      next  == IF shown = {} THEN cursor
               ELSE Entry(cursor, maxBytes, Max(shown)).cursor
  IN  [cursor |-> cursor, max |-> maxBytes,
       events |-> [i \in shown |-> Entry(cursor, maxBytes, i)], next |-> next,
       hasMore |-> next < nextCursor - 1,
       truncatedBefore |-> TruncatedBefore(cursor)]

(* What a client learns from a page: each event carries the cursor of its  *)
(* last character.                                                         *)
Learned(reply) ==
  UNION {{<<e.cursor - Len(e.text) + i, e.text[i]>> : i \in 1..Len(e.text)} :
           e \in Range(reply.events)}

(* a client that polls on from the last next_cursor                        *)
Poll(maxBytes) ==
  /\ \E reply \in {StatusPage(page.next, maxBytes)} :
       /\ page' = reply
       /\ got' = got \cup Learned(reply)
       /\ lossy' = (lossy \/ reply.truncatedBefore)
  /\ UNCHANGED jobVars

-----------------------------------------------------------------------------
Next ==
  \/ \E s \in Streams : ReaderEnds(s) \/ \E k \in 1..ChunkChars : ReadChunk(s, k)
  \/ FinishJob
  \/ \E maxBytes \in PageSizes : Poll(maxBytes)

Spec == Init /\ [][Next]_vars

-----------------------------------------------------------------------------
(* Properties.                                                             *)

Event == [start : Nat \ {0}, stream : Streams, text : Seq(Characters),
          bytes : Nat]

TypeOK ==
  /\ written \in Seq(Characters)
  /\ \A s \in Streams : sent[s] \in 0..Len(Width[s])
  /\ DOMAIN sent = Streams
  /\ reader \in [Streams -> {"reading", "late", "done"}]
  /\ over \in BOOLEAN /\ truncated \in BOOLEAN /\ lossy \in BOOLEAN
  /\ nextCursor \in Nat \ {0} /\ retained \in 0..OutputLimit
  /\ events \in Seq(Event)
  /\ page.next \in Nat
  /\ got \subseteq (Nat \ {0}) \X Characters

(* Whatever was trimmed, the events left are the end of the output, each   *)
(* character under the cursor it was given, without gap or overlap;        *)
(* retained_bytes is their size; and no more is forgotten than the limit   *)
(* asks for: with the last character that went the output was too large.   *)
RetainsSuffix ==
  /\ nextCursor = Len(written) + 1
  /\ \A i \in 1..Len(events) :
       /\ events[i].text = SubSeq(written, events[i].start, EndCursor(events[i]))
       /\ EndCursor(events[i]) + 1 =
            IF i = Len(events) THEN nextCursor ELSE events[i + 1].start
  /\ retained = Total([i \in 1..Len(events) |-> Bytes(events[i].text)])
  /\ IF truncated
     THEN /\ FirstCursor > 1
          /\ retained + WidthOf(written[FirstCursor - 1]) > OutputLimit
     ELSE FirstCursor = 1

(* A client that follows next_cursor reads every character under its right *)
(* cursor, and misses one only if a reply said truncated_before.           *)
NoSilentLoss ==
  /\ \A g \in got : g[1] <= page.next /\ g[2] = written[g[1]]
  /\ \A c \in 1..page.next : lossy \/ \E g \in got : g[1] = c

(* Each page is the longest run of retained characters after the cursor    *)
(* that max_bytes admits, however the text is cut into events.             *)
PageIsLongestRun ==
  [][page' # page =>
       LET from  == IF page'.cursor + 1 > FirstCursor THEN page'.cursor + 1
                    ELSE FirstCursor
           end   == IF Learned(page') = {} THEN from - 1 ELSE page'.next
           text  == SubSeq(written, from, end)
       IN  /\ Learned(page') = {<<c, written[c]>> : c \in from..end}
           /\ Bytes(text) <= page'.max
           /\ end + 1 < nextCursor =>
                Bytes(text) + WidthOf(written[end + 1]) > page'.max
           /\ page'.hasMore <=> end + 1 < nextCursor]_vars

(* A client that is behind gets on with its next page, if that has room    *)
(* for any character, whatever was trimmed and cut before: so one that     *)
(* polls on reaches the end of the output.                                 *)
WidestChar == 4
PollAdvances ==
  \A maxBytes \in {m \in PageSizes : m >= WidestChar} :
    page.next + 1 < nextCursor =>
      StatusPage(page.next, maxBytes).next > page.next
=============================================================================
