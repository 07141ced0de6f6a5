------------------------------ MODULE McpClient ------------------------------
(***************************************************************************)
(* One stdio client of pkg/mcp/client.go: requests that queue on c.mu, the *)
(* persistent pump that moves the server's lines to the channel `lines`,   *)
(* the deadline of the request that waits, and close().  The server is a   *)
(* process of its own: it may answer late, in any order or never, write    *)
(* log lines, stop reading, send a frame the pump refuses, or exit.        *)
(*                                                                         *)
(* A line is the request it answers, or Note for one that is no JSON-RPC   *)
(* result; Broken stands for the end of the stream and for a frame over    *)
(* MaxLineBytes, after which the pump reads no more.                       *)
(***************************************************************************)
EXTENDS Naturals, Sequences

CONSTANTS
  Reqs,       \* requests, each in the goroutine of its caller
  Note, Broken,
  LinesCap,   \* capacity of the channel `lines`: 8 in the code
  PipeCap,    \* requests that fit in the server's stdin, lines that fit in its stdout
  MaxNotes    \* bound: log lines the server writes

ASSUME McpCaps == LinesCap \in Nat \ {0} /\ PipeCap \in Nat \ {0} /\ MaxNotes \in Nat
ASSUME LinesApart == Note \notin Reqs /\ Broken \notin Reqs /\ Note # Broken

VARIABLES
  rq,       \* [Reqs -> where the request is]
  reply,    \* [Reqs -> the line it took as its answer, Note when none]
  gaveUp,   \* requests that were written and ended without a line
  stdin, stdout,  \* the two pipes
  owed,     \* requests the server has read and not answered
  notes,    \* log lines written
  alive,    \* the server process runs
  pump,     \* the pump: "reading", "failed" (it has an error to report) or "ended"
  hand,     \* the line it has read and not yet sent
  lines,    \* c.lines
  readErr,  \* c.readErr holds the pump's error
  shut      \* close() was called: c.done and stdin are closed

mcpVars == <<rq, reply, gaveUp, stdin, stdout, owed, notes, alive, pump, hand, lines, readErr, shut>>
server == <<stdin, stdout, owed, notes, alive>>
reader == <<pump, hand, lines, readErr>>

Lines == Reqs \cup {Note, Broken}
Answers == Reqs \cup {Note}
Locked == \E r \in Reqs : rq[r] \in {"writing", "waiting"}

McpTypeOK ==
  /\ rq \in [Reqs -> {"none", "queued", "writing", "waiting", "done"}]
  /\ reply \in [Reqs -> Answers] /\ gaveUp \subseteq Reqs
  /\ stdin \in Seq(Reqs) /\ Len(stdin) <= PipeCap
  /\ stdout \in Seq(Lines) /\ Len(stdout) <= PipeCap + 1
  /\ owed \subseteq Reqs /\ notes \in 0 .. MaxNotes /\ alive \in BOOLEAN
  /\ pump \in {"reading", "failed", "ended"} /\ hand \in Answers \cup {Broken}
  /\ lines \in Seq(Answers) /\ Len(lines) <= LinesCap
  /\ readErr \in BOOLEAN /\ shut \in BOOLEAN

McpInit ==
  /\ rq = [r \in Reqs |-> "none"] /\ reply = [r \in Reqs |-> Note] /\ gaveUp = {}
  /\ stdin = <<>> /\ stdout = <<>> /\ owed = {} /\ notes = 0 /\ alive = TRUE
  /\ pump = "reading" /\ hand = Broken /\ lines = <<>> /\ readErr = FALSE /\ shut = FALSE

-----------------------------------------------------------------------------
\* request().
CallTool(r) ==
  /\ rq[r] = "none"
  /\ rq' = [rq EXCEPT ![r] = "queued"]
  /\ UNCHANGED <<reply, gaveUp, server, reader, shut>>

\* Mutant of LockClient: the mutex is not taken.
LockClientNot(r) ==
  /\ rq[r] = "queued"
  /\ rq' = [rq EXCEPT ![r] = "writing"]
  /\ UNCHANGED <<reply, gaveUp, server, reader, shut>>

\* c.mu, held until the request returns.
LockClient(r) ==
  /\ rq[r] = "queued" /\ ~ Locked
  /\ rq' = [rq EXCEPT ![r] = "writing"]
  /\ UNCHANGED <<reply, gaveUp, server, reader, shut>>

\* stdin.Write: it fails on a closed stdin or a dead server, and else waits for room.
WriteRequest(r) ==
  /\ rq[r] = "writing"
  /\ IF shut \/ ~ alive
     THEN rq' = [rq EXCEPT ![r] = "done"] /\ UNCHANGED stdin
     ELSE /\ Len(stdin) < PipeCap
          /\ stdin' = Append(stdin, r) /\ rq' = [rq EXCEPT ![r] = "waiting"]
  /\ UNCHANGED <<reply, gaveUp, stdout, owed, notes, alive, reader, shut>>

\* The select takes a line: noise is skipped; a result or an error is the answer, with
\* whatever id it carries.
TakeLine(r) ==
  /\ rq[r] = "waiting" /\ lines # <<>>
  /\ lines' = Tail(lines)
  /\ IF Head(lines) = Note THEN UNCHANGED <<rq, reply>>
     ELSE rq' = [rq EXCEPT ![r] = "done"] /\ reply' = [reply EXCEPT ![r] = Head(lines)]
  /\ UNCHANGED <<gaveUp, server, pump, hand, readErr, shut>>

\* The request ends without an answer.
EndsEmpty(r) ==
  /\ rq' = [rq EXCEPT ![r] = "done"]
  /\ gaveUp' = gaveUp \cup {r}
  /\ UNCHANGED <<reply, server, pump, hand, lines, shut>>

\* The select takes the pump's error, of which there is only one.
TakeReadErr(r) == rq[r] = "waiting" /\ readErr /\ readErr' = FALSE /\ EndsEmpty(r)

\* Mutant of Abandon: the deadline is looked at between two reads only.
AbandonAfterLine(r) == rq[r] = "waiting" /\ lines # <<>> /\ UNCHANGED readErr /\ EndsEmpty(r)

\* The select takes the deadline, or the end of the caller's context.
Abandon(r) == rq[r] = "waiting" /\ UNCHANGED readErr /\ EndsEmpty(r)

-----------------------------------------------------------------------------
\* readLine() and startReader()'s loop.
PumpReads ==
  /\ pump = "reading" /\ hand = Broken /\ stdout # <<>>
  /\ stdout' = Tail(stdout) /\ hand' = Head(stdout)
  /\ pump' = IF Head(stdout) = Broken THEN "failed" ELSE pump
  /\ UNCHANGED <<rq, reply, gaveUp, stdin, owed, notes, alive, lines, readErr, shut>>

PumpSends ==
  /\ hand # Broken /\ Len(lines) < LinesCap
  /\ lines' = Append(lines, hand) /\ hand' = Broken
  /\ UNCHANGED <<rq, reply, gaveUp, server, pump, readErr, shut>>

\* The channel of the error holds one, and nobody else sends to it.
PumpReports ==
  /\ pump = "failed"
  /\ readErr' = TRUE /\ pump' = "ended"
  /\ UNCHANGED <<rq, reply, gaveUp, server, hand, lines, shut>>

\* Either send loses to c.done, and the line or the error is gone.
PumpQuits ==
  /\ shut /\ (hand # Broken \/ pump = "failed")
  /\ pump' = "ended" /\ hand' = Broken
  /\ UNCHANGED <<rq, reply, gaveUp, server, lines, readErr, shut>>

\* close() and, when it has waited long enough, Kill: the stream ends.
CloseClient ==
  /\ ~ shut /\ shut' = TRUE
  /\ UNCHANGED <<rq, reply, gaveUp, server, reader>>

-----------------------------------------------------------------------------
\* The server.
ServerReads ==
  /\ alive /\ stdin # <<>>
  /\ owed' = owed \cup {Head(stdin)} /\ stdin' = Tail(stdin)
  /\ UNCHANGED <<rq, reply, gaveUp, stdout, notes, alive, reader, shut>>

ServerPrints(line) == Len(stdout) < PipeCap /\ stdout' = Append(stdout, line)

ServerAnswers(r) ==
  /\ alive /\ r \in owed
  /\ ServerPrints(r) /\ owed' = owed \ {r}
  /\ UNCHANGED <<rq, reply, gaveUp, stdin, notes, alive, reader, shut>>

ServerLogs ==
  /\ alive /\ notes < MaxNotes
  /\ ServerPrints(Note) /\ notes' = notes + 1
  /\ UNCHANGED <<rq, reply, gaveUp, stdin, owed, alive, reader, shut>>

\* A frame over MaxLineBytes, from a server that goes on; or its exit.
ServerBreaks(exits) ==
  /\ alive /\ (exits \/ Len(stdout) < PipeCap)
  /\ stdout' = Append(stdout, Broken) /\ alive' = ~ exits
  /\ UNCHANGED <<rq, reply, gaveUp, stdin, owed, notes, reader, shut>>

McpNext ==
  \/ \E r \in Reqs : \/ CallTool(r) \/ LockClient(r) \/ WriteRequest(r) \/ TakeLine(r)
                     \/ TakeReadErr(r) \/ Abandon(r) \/ ServerAnswers(r)
  \/ PumpReads \/ PumpSends \/ PumpReports \/ PumpQuits \/ CloseClient
  \/ ServerReads \/ ServerLogs \/ \E exits \in BOOLEAN : ServerBreaks(exits)

McpSpec == McpInit /\ [][McpNext]_mcpVars

(***************************************************************************)
(* The deadline of a waiting request comes, and a select that is ready     *)
(* takes one of its cases.  Nothing is asked of the server.                *)
(***************************************************************************)
McpFairness == \A r \in Reqs : WF_mcpVars(TakeLine(r) \/ TakeReadErr(r) \/ Abandon(r))

-----------------------------------------------------------------------------
\* client.go:110-112: a line goes to one request at most, and a request takes another's
\* only when that one ended before without it: as long as none gives up, each gets its own.
MixedOnlyAfterGivingUp == \A r, q \in Reqs :
  r # q /\ reply[r] = q => rq[q] = "done" /\ reply[q] # q /\ gaveUp # {}

\* client.go:676-681: a request that was written gives the client's lock back, whatever
\* the server does or does not do.  A request waits once: that again and again none waits
\* is that each wait ends.
WaitEnds == []<> \A r \in Reqs : rq[r] # "waiting"

\* client.go:676 "Read until a matching result".
RepliesMatch == \A r \in Reqs : reply[r] \in {r, Note}
=============================================================================
