------------------------------ MODULE WorkTree ------------------------------
(***************************************************************************)
(* The write tools of a run's workspace (pkg/workspace/tools.go) over its  *)
(* path locks (pathlock.go), its first-write backups (checkpoint.go) and   *)
(* the operator's rewind (pkg/rewind/wave.go).  Several workers call       *)
(* ws_write, ws_edit, ws_patch, ws_mv and ws_delete at once; a rewind      *)
(* takes no path lock and may run beside them.                             *)
(*                                                                         *)
(* A file holds the set of the calls whose text is in it; Original is the  *)
(* text it had before the run, {} an empty file.  A call works on op.paths *)
(* (two for ws_mv; "edit" is ws_edit or ws_patch) and is one-shot: a       *)
(* worker's next call is another one.  Which paths were read, the ledger   *)
(* the guards ask, only adds refusals.                                     *)
(***************************************************************************)
EXTENDS Naturals, Sequences, FiniteSets

CONSTANTS
  WriteCalls,   \* calls of the write tools
  Paths,        \* cleaned paths, numbered in the order of their lock keys
  Original,     \* the text a file has before the run
  NoFile,       \* the content of a path with no file
  NoHolder,     \* an open lock
  NameOf,       \* [Paths -> names]: safeCheckpointName, which may give two paths one name
  Declared,     \* the paths the tasks of the wave list: what its snapshot holds
  MaxRewinds    \* bound of the model: rewinds of the operator

ASSUME WorkTreePaths == Paths \subseteq Nat /\ Declared \subseteq Paths /\ MaxRewinds \in Nat
ASSUME WorkTreeTexts == NoHolder \notin WriteCalls /\ Original \notin WriteCalls
ASSUME WorkTreeNoFile == \A text \in SUBSET (WriteCalls \cup {Original}) : text # NoFile

VARIABLES
  file,     \* [Paths -> content]: the working tree
  start,    \* the working tree before the run
  lock,     \* [Paths -> holder]: w.pathMu
  call,     \* [WriteCalls -> [op, pc, wants, text]]: text is what the call read
  seen,     \* FileCheckpointer.seen
  backup,   \* [Names -> content]: the checkpoint store; NoFile where there is no copy
  absent,   \* names with an .absent marker
  snap,     \* the wave's snapshot
  rewinds,  \* rewinds begun
  toRewind, \* paths the rewind has still to write
  acked,    \* calls that answered that their text was written
  replaced, \* calls whose text a later write, delete or rewind replaced on purpose
  spoiled   \* acknowledged texts that a failing os.WriteFile cut off

calls == <<lock, call>>
store == <<seen, backup, absent>>
rewind == <<snap, rewinds, toRewind>>
history == <<acked, replaced, spoiled>>
workVars == <<file, start, calls, store, rewind, history>>

Text == SUBSET (WriteCalls \cup {Original})
Content == Text \cup {NoFile}
TextIn(content) == IF content = NoFile THEN {} ELSE content

Names == {NameOf[p] : p \in Paths}

Ops == [kind : {"write", "edit", "delete"}, paths : {<<p>> : p \in Paths}]
         \cup [kind : {"mv"}, paths : {<<p, q>> : p \in Paths, q \in Paths}]
ToolStages == {"locking", "looked", "safe", "checking", "copied", "leaving", "done"}
NoOp == [kind |-> "none", paths |-> <<>>]
NotCalled == [op |-> NoOp, pc |-> "idle", wants |-> <<>>, text |-> NoFile]

PathsOf(c) == {call[c].op.paths[i] : i \in DOMAIN call[c].op.paths}
From(c) == call[c].op.paths[1]
To(c) == call[c].op.paths[2]
Busy(c) == call[c].pc \notin {"idle", "done"}
HoldsLock(c, p) == lock[p] = c

WorkTypeOK ==
  /\ file \in [Paths -> Content] /\ start \in [Paths -> Content]
  /\ seen \subseteq Paths /\ toRewind \subseteq Declared
  /\ lock \in [Paths -> WriteCalls \cup {NoHolder}]
  /\ backup \in [Names -> Content] /\ absent \subseteq Names /\ snap \in [Declared -> Content]
  /\ rewinds \in 0 .. MaxRewinds
  /\ acked \subseteq WriteCalls /\ replaced \subseteq WriteCalls \cup {Original} /\ spoiled \subseteq acked
  /\ call \in [WriteCalls -> [op : Ops \cup {NoOp}, pc : ToolStages \cup {"idle"},
                              wants : Seq(Paths), text : Content]]
  /\ \A c \in WriteCalls : Busy(c) /\ call[c].pc # "leaving" => call[c].op \in Ops

WorkInit ==
  /\ file \in [Paths -> {NoFile, {}, {Original}}] /\ start = file
  /\ lock = [p \in Paths |-> NoHolder]
  /\ call = [c \in WriteCalls |-> NotCalled]
  /\ seen = {} /\ backup = [n \in Names |-> NoFile] /\ absent = {}
  /\ snap = [p \in Declared |-> file[p]] /\ rewinds = 0 /\ toRewind = {}
  /\ acked = {} /\ replaced = {} /\ spoiled = {}

Step(c, pc) == call' = [call EXCEPT ![c].pc = pc]

\* The tool has its answer: what it read and was asked no longer matters.
Answer(c) == call' = [call EXCEPT ![c] = [NotCalled EXCEPT !.pc = "leaving"]]

-----------------------------------------------------------------------------
\* Mutant of Wanted: the paths in the order of the arguments.
WantedAsGiven(paths) == paths

\* lockPath, lockPaths: in the order of the keys, one path only once.
Wanted(paths) ==
  IF Len(paths) = 1 \/ paths[1] = paths[2] THEN <<paths[1]>>
  ELSE IF paths[2] < paths[1] THEN <<paths[2], paths[1]>> ELSE paths

\* A call comes as far as its lock.
BeginCall(c) == \E op \in Ops :
  /\ call[c].pc = "idle"
  /\ call' = [call EXCEPT ![c] = [NotCalled EXCEPT !.op = op, !.pc = "locking", !.wants = Wanted(op.paths)]]
  /\ UNCHANGED <<file, start, lock, store, rewind, history>>

TakeLock(c) ==
  /\ call[c].pc = "locking" /\ call[c].wants # <<>>
  /\ lock[Head(call[c].wants)] = NoHolder
  /\ lock' = [lock EXCEPT ![Head(call[c].wants)] = c]
  /\ call' = [call EXCEPT ![c].wants = Tail(@)]
  /\ UNCHANGED <<file, start, store, rewind, history>>

\* Mutant of Ready: the tool does not wait for its locks.
ReadyUnlocked(c) == call[c].pc = "locking"

\* The locks are held.
Ready(c) == call[c].pc = "locking" /\ call[c].wants = <<>>

\* What a tool asks of the files themselves; only ws_patch may edit a missing one.
Allowed(c) ==
  LET text == file[From(c)] IN
  CASE call[c].op.kind \in {"write", "edit"} -> TRUE
    [] call[c].op.kind = "mv"     -> text # NoFile /\ file[To(c)] = NoFile
    [] call[c].op.kind = "delete" -> text # NoFile

LookAt(c) ==
  /\ Ready(c) /\ Allowed(c)
  /\ call' = [call EXCEPT ![c].text = file[From(c)], ![c].wants = call[c].op.paths, ![c].pc = "looked"]
  /\ UNCHANGED <<file, start, lock, store, rewind, history>>

\* The tool refuses: by Allowed, because the path was never read, or for its arguments
\* (no match, an empty body, a shrinking rewrite); or the change goes to review.
Refuse(c) ==
  /\ Ready(c) /\ Answer(c)
  /\ UNCHANGED <<file, start, lock, store, rewind, history>>

\* The copy of p's file under its name, or the mark that there is none.
SaveBackup(p) ==
  IF file[p] = NoFile THEN absent' = absent \cup {NameOf[p]} /\ UNCHANGED backup
  ELSE backup' = [backup EXCEPT ![NameOf[p]] = file[p]] /\ UNCHANGED absent

\* One path is backed up, after the last of them the tool goes on.
BackedUp(c) ==
  /\ call[c].pc = "looked" /\ call[c].wants # <<>>
  /\ call' = [call EXCEPT ![c].wants = Tail(@), ![c].pc = IF Tail(call[c].wants) = <<>> THEN "safe" ELSE @]
  /\ seen' = seen \cup {Head(call[c].wants)}
  /\ UNCHANGED <<file, start, lock, rewind, history>>

\* Mutant of BackupIfNeeded: every write backs up, not the first alone.
BackupAlways(c) == BackedUp(c) /\ SaveBackup(Head(call[c].wants))

\* Only the first time a path is to be written, and not for a file that is too long or on
\* an error: the path counts as seen all the same.
BackupIfNeeded(c) ==
  /\ BackedUp(c)
  /\ \/ UNCHANGED <<backup, absent>>
     \/ Head(call[c].wants) \notin seen /\ SaveBackup(Head(call[c].wants))

Writes(c) == call[c].op.kind \in {"write", "edit"}
NewText(c) == IF call[c].op.kind = "write" THEN {c} ELSE TextIn(call[c].text) \cup {c}

\* applyWithSyntaxGuard: the new text is on disk while the checker reads it.
ApplyText(c) ==
  /\ call[c].pc = "safe" /\ Writes(c) /\ Step(c, "checking")
  /\ file' = [file EXCEPT ![From(c)] = NewText(c)]
  /\ UNCHANGED <<start, lock, store, rewind, history>>

KeepText(c) ==
  /\ call[c].pc = "checking" /\ Answer(c)
  /\ acked' = acked \cup {c}
  /\ replaced' = IF call[c].op.kind = "write" THEN replaced \cup TextIn(call[c].text) ELSE replaced
  /\ UNCHANGED <<file, start, lock, store, rewind, spoiled>>

\* os.WriteFile truncates first: one that fails leaves any part of the new text.
TornWrite(p, new, old) == \E rest \in SUBSET new :
  /\ file' = [file EXCEPT ![p] = rest]
  /\ spoiled' = spoiled \cup (acked' \cap (old \ rest))

\* The write, or the copy of a move, fails half way.
WriteFails(c) ==
  /\ call[c].pc = "safe" /\ Answer(c)
  /\ UNCHANGED <<start, lock, store, rewind, acked, replaced>>
  /\ \/ Writes(c) /\ TornWrite(From(c), NewText(c), TextIn(file[From(c)]))
     \/ call[c].op.kind = "mv" /\ TornWrite(To(c), TextIn(call[c].text), TextIn(file[To(c)]))

\* Only a file that was there is put back: a new one has no verdict to lose.
PutBack(c) ==
  /\ call[c].pc = "checking" /\ call[c].text # NoFile /\ Answer(c)
  /\ file' = [file EXCEPT ![From(c)] = call[c].text]
  /\ UNCHANGED <<start, lock, store, rewind, history>>

\* Putting back fails half way, and the tool answers that it wrote.
PutBackFails(c) ==
  /\ call[c].pc = "checking" /\ call[c].text # NoFile /\ Answer(c)
  /\ acked' = acked \cup {c}
  /\ TornWrite(From(c), TextIn(call[c].text), TextIn(call[c].text) \cup TextIn(file[From(c)]))
  /\ UNCHANGED <<start, lock, store, rewind, replaced>>

Delete(c) ==
  /\ call[c].pc = "safe" /\ call[c].op.kind = "delete" /\ Answer(c)
  /\ file[From(c)] # NoFile
  /\ file' = [file EXCEPT ![From(c)] = NoFile]
  /\ replaced' = replaced \cup TextIn(call[c].text)
  /\ UNCHANGED <<start, lock, store, rewind, acked, spoiled>>

Rename(c) ==
  /\ call[c].pc = "safe" /\ call[c].op.kind = "mv" /\ Answer(c)
  /\ file[From(c)] # NoFile
  /\ file' = [file EXCEPT ![To(c)] = file[From(c)], ![From(c)] = NoFile]
  /\ UNCHANGED <<start, lock, store, rewind, history>>

\* The rename fails: copy what was read, check its size, remove the source.
CopyFile(c) ==
  /\ call[c].pc = "safe" /\ call[c].op.kind = "mv" /\ Step(c, "copied")
  /\ file' = [file EXCEPT ![To(c)] = call[c].text]
  /\ UNCHANGED <<start, lock, store, rewind, history>>
RemoveSource(c) ==
  /\ call[c].pc = "copied" /\ Answer(c) /\ file[From(c)] # NoFile
  /\ file' = [file EXCEPT ![From(c)] = NoFile]
  /\ UNCHANGED <<start, lock, store, rewind, history>>

\* The size is another: a rewind came in between, and the copy is taken away.
DropCopy(c) ==
  /\ call[c].pc = "copied" /\ Answer(c) /\ file[To(c)] # call[c].text
  /\ file' = [file EXCEPT ![To(c)] = NoFile]
  /\ UNCHANGED <<start, lock, store, rewind, history>>

\* The write, the removal or the copy fails before it changes anything, or the source of a
\* move cannot be removed.
ToolFails(c) ==
  /\ call[c].pc \in {"safe", "copied"} /\ Answer(c)
  /\ UNCHANGED <<file, start, lock, store, rewind, history>>

\* The deferred unlock.
Unlock(c) ==
  /\ call[c].pc = "leaving" /\ Step(c, "done")
  /\ lock' = [p \in Paths |-> IF HoldsLock(c, p) THEN NoHolder ELSE lock[p]]
  /\ UNCHANGED <<file, start, store, rewind, history>>

-----------------------------------------------------------------------------
\* snapshotWaveFiles, between two waves.
SnapshotPaths ==
  /\ \A c \in WriteCalls : ~Busy(c)
  /\ snap' = [p \in Declared |-> file[p]]
  /\ UNCHANGED <<file, start, calls, store, rewinds, toRewind, history>>

\* handleRewindRestore: no gate, no lock, one file at a time in any order.
BeginRewind ==
  /\ rewinds < MaxRewinds /\ toRewind = {}
  /\ rewinds' = rewinds + 1 /\ toRewind' = Declared
  /\ UNCHANGED <<file, start, calls, store, snap, history>>

\* An empty file was stored as the mark of a missing one.
Rewound(content) == IF content = {} THEN NoFile ELSE content

RewindFile(p) ==
  /\ p \in toRewind /\ toRewind' = toRewind \ {p}
  /\ file' = [file EXCEPT ![p] = Rewound(snap[p])]
  /\ replaced' = replaced \cup TextIn(file[p]) \cup {c \in WriteCalls : Busy(c) /\ p \in PathsOf(c)}
  /\ UNCHANGED <<start, calls, store, snap, rewinds, acked, spoiled>>

\* A file that cannot be written ends the rewind; atomicfile.Write leaves it as it was.  With
\* RewindFile in any order this is also a snapshot that lacks a file: one over 2,000,000
\* bytes, or one that could not be read.
RewindFails ==
  /\ toRewind # {} /\ toRewind' = {}
  /\ UNCHANGED <<file, start, calls, store, snap, rewinds, history>>

CallSteps(c) ==
  \/ TakeLock(c) \/ LookAt(c) \/ Refuse(c) \/ BackupIfNeeded(c) \/ ApplyText(c) \/ KeepText(c)
  \/ WriteFails(c) \/ PutBack(c) \/ PutBackFails(c) \/ Delete(c) \/ Rename(c) \/ CopyFile(c) \/ RemoveSource(c) \/ DropCopy(c)
  \/ ToolFails(c) \/ Unlock(c)

WorkNext ==
  \/ \E c \in WriteCalls : BeginCall(c) \/ CallSteps(c)
  \/ \E p \in Paths : RewindFile(p)
  \/ SnapshotPaths \/ BeginRewind \/ RewindFails

WorkSpec == WorkInit /\ [][WorkNext]_workVars

\* The worker's goroutine is scheduled, and a sync.Mutex hands an open lock to one that waits.
WorkFairness == \A c \in WriteCalls : WF_workVars(CallSteps(c))

-----------------------------------------------------------------------------
(* No call's text is lost: what a tool acknowledged is in the tree, or in   *)
(* the hands of a call that holds the path.  "its edit silently overwritten *)
(* by ours" is what the critical section is for (tools.go, editFile).  The  *)
(* exceptions: a whole-file write, a delete or a rewind replaced the text,  *)
(* or a write that failed half way, also one that puts a file back, cut it  *)
(* off (syntax.go:181-215).                                                 *)
NoEditLost == \A e \in acked \ (replaced \cup spoiled) :
  \/ \E p \in Paths : e \in TextIn(file[p])
  \/ \E c \in WriteCalls : Busy(c) /\ e \in TextIn(call[c].text)

(* What the checkpoint store says of a name is what some path of that name  *)
(* was before the run first changed it, whichever of the racing tools came  *)
(* first and whatever a rewind did in between (checkpoint.go                *)
(* BackupIfNeeded).  A file that was empty may be marked absent after a     *)
(* rewind, which removes it.                                                *)
BackupIsFirst ==
  /\ \A n \in Names : backup[n] # NoFile => \E p \in Paths : NameOf[p] = n /\ backup[n] = start[p]
  /\ \A n \in absent : \E p \in Paths :
       NameOf[p] = n /\ (start[p] = NoFile \/ (start[p] = {} /\ rewinds > 0))

(* Every call of a tool ends, crossing moves and a move onto itself         *)
(* included (lockPaths).                                                    *)
ToolCallsEnd == \A c \in WriteCalls : Busy(c) ~> ~Busy(c)
=============================================================================
