--------------------------- MODULE WorkTree_proofs ---------------------------
(***************************************************************************)
(* Proofs about WorkTree for any number of calls, any set of paths, any    *)
(* set of declared files and any number of rewinds.                        *)
(***************************************************************************)
EXTENDS WorkTree, TLAPS

LEMMA WantedPaths ==
  ASSUME NEW op \in Ops PROVE Wanted(op.paths) \in Seq(Paths)
<1>1. CASE \E p \in Paths : op.paths = <<p>>
  <2>1. PICK p \in Paths : op.paths = <<p>>
    BY <1>1
  <2>2. Wanted(<<p>>) = <<p>>
    BY DEF Wanted
  <2>3. <<p>> \in Seq(Paths)
    OBVIOUS
  <2> QED
    BY <2>1, <2>2, <2>3
<1>2. CASE \E p \in Paths, q \in Paths : op.paths = <<p, q>>
  <2>1. PICK p \in Paths, q \in Paths : op.paths = <<p, q>>
    BY <1>2
  <2>2. Wanted(<<p, q>>) \in {<<p>>, <<q, p>>, <<p, q>>}
    BY DEF Wanted
  <2>3. <<p>> \in Seq(Paths) /\ <<q, p>> \in Seq(Paths) /\ <<p, q>> \in Seq(Paths)
    OBVIOUS
  <2> QED
    BY <2>1, <2>2, <2>3
<1> QED
  BY <1>1, <1>2 DEF Ops

\* The paths of a call that is under way are paths, and the first of them is where it works.
LEMMA CallPaths ==
  ASSUME WorkTypeOK, NEW c \in WriteCalls, call[c].op \in Ops
  PROVE  /\ PathsOf(c) \subseteq Paths /\ From(c) \in PathsOf(c)
         /\ call[c].op.kind = "mv" => To(c) \in PathsOf(c)
<1>1. CASE \E p \in Paths : call[c].op.paths = <<p>> /\ call[c].op.kind # "mv"
  BY <1>1 DEF PathsOf, From
<1>2. CASE \E p \in Paths, q \in Paths : call[c].op.paths = <<p, q>>
  BY <1>2 DEF PathsOf, From, To
<1> QED
  BY <1>1, <1>2 DEF Ops

\* The paths of an operation, in the order it backs them up.
LEMMA OpPaths == ASSUME NEW op \in Ops PROVE op.paths \in Seq(Paths) /\ op.paths # <<>>
<1>1. CASE \E p \in Paths : op.paths = <<p>>
  BY <1>1
<1>2. CASE \E p \in Paths, q \in Paths : op.paths = <<p, q>>
  BY <1>2
<1> QED
  BY <1>1, <1>2 DEF Ops

LEMMA TextIsContent ==
  ASSUME WorkTypeOK, NEW c \in WriteCalls
  PROVE  NewText(c) \in Content
<1>1. TextIn(call[c].text) \in Text /\ call[c].text \in Content
  BY DEF WorkTypeOK, TextIn, Content, Text
<1> QED
  BY <1>1 DEF NewText, Content, Text

LEMMA WorkTypeInit == WorkInit => WorkTypeOK
<1> SUFFICES ASSUME WorkInit PROVE WorkTypeOK
  OBVIOUS
<1>1. file \in [Paths -> Content]
  BY DEF WorkInit, Content, Text
<1>2. snap \in [Declared -> Content] /\ backup \in [Names -> Content]
  BY <1>1, WorkTreePaths DEF WorkInit, Content
<1>3. NotCalled \in [op : Ops \cup {NoOp}, pc : ToolStages \cup {"idle"}, wants : Seq(Paths), text : Content]
  BY DEF NotCalled, Content
<1> QED
  BY <1>1, <1>2, <1>3, WorkTreePaths DEF WorkInit, WorkTypeOK, Busy, NotCalled


CallRecords == [op : Ops \cup {NoOp}, pc : ToolStages \cup {"idle"}, wants : Seq(Paths), text : Content]

\* A call that moves to another stage, or answers, is still a call.
LEMMA StepType ==
  ASSUME WorkTypeOK, NEW c \in WriteCalls, NEW pc \in ToolStages, Step(c, pc),
         call[c].op \in Ops \/ pc \in {"leaving", "done"}
  PROVE  /\ call' \in [WriteCalls -> CallRecords]
         /\ \A d \in WriteCalls : Busy(d)' /\ call'[d].pc # "leaving" => call'[d].op \in Ops
<1>1. PICK old \in CallRecords : old = call[c]
  BY DEF WorkTypeOK, CallRecords
<1>2. PICK new : new = [old EXCEPT !.pc = pc]
  OBVIOUS
<1>3. new \in CallRecords /\ new.op = old.op /\ new.pc = pc
  BY <1>2 DEF CallRecords
<1>4. call' = [call EXCEPT ![c] = new] /\ call \in [WriteCalls -> CallRecords]
  BY <1>1, <1>2 DEF Step, WorkTypeOK, CallRecords
<1>5. call' \in [WriteCalls -> CallRecords] /\ call'[c] = new /\ \A d \in WriteCalls : d # c => call'[d] = call[d]
  BY <1>3, <1>4
<1>6. \A d \in WriteCalls : d # c /\ Busy(d)' /\ call'[d].pc # "leaving" => call'[d].op \in Ops
  BY <1>5 DEF WorkTypeOK, Busy
<1>7. Busy(c)' /\ call'[c].pc # "leaving" => call'[c].op \in Ops
  BY <1>1, <1>3, <1>5 DEF Busy
<1> QED
  BY <1>5, <1>6, <1>7

LEMMA AnswerType ==
  ASSUME WorkTypeOK, NEW c \in WriteCalls, Answer(c)
  PROVE  /\ call' \in [WriteCalls -> CallRecords]
         /\ \A d \in WriteCalls : Busy(d)' /\ call'[d].pc # "leaving" => call'[d].op \in Ops
<1>1. NotCalled \in CallRecords
  BY DEF NotCalled, CallRecords, Content
<1>2. "leaving" \in ToolStages
  BY DEF ToolStages
<1>3. [NotCalled EXCEPT !.pc = "leaving"] \in CallRecords
  BY <1>1, <1>2 DEF CallRecords
<1> QED
  BY <1>3 DEF Answer, WorkTypeOK, Busy, CallRecords, NotCalled

\* One path is backed up, or is not: what the step does to the call and to the store.
LEMMA BackupMoves ==
  ASSUME WorkTypeOK, NEW c \in WriteCalls, BackupIfNeeded(c)
  PROVE  /\ seen' \subseteq Paths /\ backup' \in [Names -> Content] /\ absent' \subseteq Names
         /\ call' \in [WriteCalls -> CallRecords]
         /\ \A d \in WriteCalls : Busy(d)' /\ call'[d].pc # "leaving" => call'[d].op \in Ops
         /\ Head(call[c].wants) \in Paths /\ call[c].wants \in Seq(Paths) /\ call[c].wants # <<>>
         /\ call'[c].op = call[c].op /\ call'[c].text = call[c].text
         /\ call'[c].wants = Tail(call[c].wants)
         /\ call'[c].pc = IF Tail(call[c].wants) = <<>> THEN "safe" ELSE "looked"
         /\ \A d \in WriteCalls : d # c => call'[d] = call[d]
<1>1. PICK old \in CallRecords : old = call[c]
  BY DEF WorkTypeOK, CallRecords
<1>2. /\ old.pc = "looked" /\ old.wants # <<>> /\ seen' = seen \cup {Head(old.wants)}
      /\ call' = [call EXCEPT ![c].wants = Tail(@), ![c].pc = IF Tail(call[c].wants) = <<>> THEN "safe" ELSE @]
  BY <1>1 DEF BackupIfNeeded, BackedUp
<1>3. Head(old.wants) \in Paths /\ Tail(old.wants) \in Seq(Paths) /\ old.wants \in Seq(Paths)
  BY <1>1, <1>2 DEF CallRecords
<1>4. old.op \in Ops
  BY <1>1, <1>2 DEF WorkTypeOK, Busy
<1>5. PICK new : new = [old EXCEPT !.wants = Tail(old.wants),
                                   !.pc = IF Tail(old.wants) = <<>> THEN "safe" ELSE "looked"]
  OBVIOUS
<1>6. /\ new \in CallRecords /\ new.op = old.op /\ new.text = old.text /\ new.wants = Tail(old.wants)
      /\ new.pc = IF Tail(old.wants) = <<>> THEN "safe" ELSE "looked"
  BY <1>3, <1>5 DEF CallRecords, ToolStages
<1>7. call' = [call EXCEPT ![c] = new] /\ call \in [WriteCalls -> CallRecords]
  BY <1>1, <1>2, <1>5 DEF WorkTypeOK, CallRecords
<1>8. call'[c] = new /\ call' \in [WriteCalls -> CallRecords] /\ \A d \in WriteCalls : d # c => call'[d] = call[d]
  BY <1>6, <1>7
<1>9. \A d \in WriteCalls : Busy(d)' /\ call'[d].pc # "leaving" => call'[d].op \in Ops
  BY <1>4, <1>6, <1>8 DEF WorkTypeOK, Busy
<1>10. backup' \in [Names -> Content] /\ absent' \subseteq Names
  <2>1. CASE UNCHANGED <<backup, absent>>
    BY <2>1 DEF WorkTypeOK
  <2>2. CASE SaveBackup(Head(old.wants))
    <3>1. file[Head(old.wants)] \in Content /\ NameOf[Head(old.wants)] \in Names
      BY <1>3 DEF WorkTypeOK, Names
    <3> QED
      BY <2>2, <3>1 DEF SaveBackup, WorkTypeOK
  <2> QED
    BY <1>1, <2>1, <2>2 DEF BackupIfNeeded
<1>11. seen' \subseteq Paths
  BY <1>2, <1>3 DEF WorkTypeOK
<1> QED
  BY <1>1, <1>2, <1>3, <1>6, <1>8, <1>9, <1>10, <1>11

\* A torn write leaves a text, and calls cut off that were acknowledged.
LEMMA TornType ==
  ASSUME WorkTypeOK, NEW p, NEW new \in Text, NEW old, TornWrite(p, new, old), acked \subseteq acked'
  PROVE  file' \in [Paths -> Content] /\ spoiled' \subseteq acked'
<1>1. PICK rest \in SUBSET new : /\ file' = [file EXCEPT ![p] = rest]
                                 /\ spoiled' = spoiled \cup (acked' \cap (old \ rest))
  BY DEF TornWrite
<1>2. rest \in Content
  BY DEF Content, Text
<1> QED
  BY <1>1, <1>2 DEF WorkTypeOK

LEMMA TextInType ==
  ASSUME WorkTypeOK, NEW c \in WriteCalls
  PROVE  TextIn(call[c].text) \in Text /\ NewText(c) \in Text
<1>1. TextIn(call[c].text) \in Text
  BY DEF WorkTypeOK, TextIn, Content, Text
<1> QED
  BY <1>1 DEF NewText, Text

LEMMA WorkTypeStep == WorkTypeOK /\ [WorkNext]_workVars => WorkTypeOK'
<1> SUFFICES ASSUME WorkTypeOK, [WorkNext]_workVars PROVE WorkTypeOK'
  OBVIOUS
<1> USE WorkTreePaths DEF calls, store, rewind, history, CallRecords
<1>1. ASSUME NEW c \in WriteCalls, BeginCall(c) PROVE WorkTypeOK'
  <2>1. PICK op \in Ops : /\ call[c].pc = "idle"
                          /\ call' = [call EXCEPT ![c] = [NotCalled EXCEPT !.op = op, !.pc = "locking",
                                                                           !.wants = Wanted(op.paths)]]
    BY <1>1 DEF BeginCall
  <2>2. [NotCalled EXCEPT !.op = op, !.pc = "locking", !.wants = Wanted(op.paths)] \in CallRecords
    BY WantedPaths DEF NotCalled, Content, ToolStages
  <2> QED
    BY <1>1, <2>1, <2>2 DEF BeginCall, WorkTypeOK, Busy, NotCalled
<1>2. ASSUME NEW c \in WriteCalls, TakeLock(c) PROVE WorkTypeOK'
  <2>1. Head(call[c].wants) \in Paths /\ Tail(call[c].wants) \in Seq(Paths)
    BY <1>2 DEF TakeLock, WorkTypeOK
  <2>2. call' \in [WriteCalls -> CallRecords]
    BY <1>2, <2>1 DEF TakeLock, WorkTypeOK
  <2>3. \A d \in WriteCalls : Busy(d)' /\ call'[d].pc # "leaving" => call'[d].op \in Ops
    BY <1>2 DEF TakeLock, WorkTypeOK, Busy
  <2> QED
    BY <1>2, <2>2, <2>3 DEF TakeLock, WorkTypeOK
<1>3. ASSUME NEW c \in WriteCalls, LookAt(c) PROVE WorkTypeOK'
  <2>1. call[c].op \in Ops /\ From(c) \in Paths
    BY <1>3, CallPaths DEF LookAt, Ready, WorkTypeOK, Busy
  <2>2. PICK old \in CallRecords : old = call[c]
    BY DEF WorkTypeOK
  <2>3. PICK new : new = [old EXCEPT !.text = file[From(c)], !.wants = old.op.paths, !.pc = "looked"]
    OBVIOUS
  <2>4. new \in CallRecords /\ new.op = old.op
    <3>1. file[From(c)] \in Content /\ "looked" \in ToolStages /\ old.op.paths \in Seq(Paths)
      BY <2>1, <2>2, OpPaths DEF WorkTypeOK, ToolStages
    <3> QED BY <2>3, <3>1
  <2>5. call' = [call EXCEPT ![c] = new] /\ call \in [WriteCalls -> CallRecords]
    BY <1>3, <2>2, <2>3 DEF LookAt, WorkTypeOK
  <2>6. call' \in [WriteCalls -> CallRecords] /\ call'[c] = new /\ \A d \in WriteCalls : d # c => call'[d] = call[d]
    BY <2>4, <2>5
  <2>7. \A d \in WriteCalls : Busy(d)' /\ call'[d].pc # "leaving" => call'[d].op \in Ops
    BY <2>1, <2>2, <2>4, <2>6 DEF WorkTypeOK, Busy
  <2> QED
    BY <1>3, <2>6, <2>7 DEF LookAt, WorkTypeOK
<1>4. ASSUME NEW c \in WriteCalls, Refuse(c) PROVE WorkTypeOK'
  BY <1>4, AnswerType DEF Refuse, WorkTypeOK
<1>5. ASSUME NEW c \in WriteCalls, BackupIfNeeded(c) PROVE WorkTypeOK'
  <2>1. /\ seen' \subseteq Paths /\ backup' \in [Names -> Content] /\ absent' \subseteq Names
        /\ call' \in [WriteCalls -> CallRecords]
        /\ \A d \in WriteCalls : Busy(d)' /\ call'[d].pc # "leaving" => call'[d].op \in Ops
    BY <1>5, BackupMoves
  <2> QED
    BY <1>5, <2>1 DEF BackupIfNeeded, BackedUp, WorkTypeOK
<1>6. ASSUME NEW c \in WriteCalls, ApplyText(c) PROVE WorkTypeOK'
  <2>1. call[c].op \in Ops /\ "checking" \in ToolStages
    BY <1>6 DEF ApplyText, WorkTypeOK, Busy, ToolStages
  <2> QED
    BY <1>6, <2>1, StepType, TextIsContent DEF ApplyText, WorkTypeOK
<1>7. ASSUME NEW c \in WriteCalls, KeepText(c) PROVE WorkTypeOK'
  <2>1. TextIn(call[c].text) \subseteq WriteCalls \cup {Original}
    BY DEF WorkTypeOK, TextIn, Content, Text
  <2> QED
    BY <1>7, <2>1, AnswerType DEF KeepText, WorkTypeOK
<1>8. ASSUME NEW c \in WriteCalls, PutBack(c) PROVE WorkTypeOK'
  <2>1. call[c].text \in Content
    BY DEF WorkTypeOK
  <2> QED
    BY <1>8, <2>1, AnswerType DEF PutBack, WorkTypeOK
<1>9. ASSUME NEW c \in WriteCalls, Delete(c) PROVE WorkTypeOK'
  <2>1. TextIn(call[c].text) \subseteq WriteCalls \cup {Original} /\ NoFile \in Content
    BY DEF WorkTypeOK, TextIn, Content, Text
  <2> QED
    BY <1>9, <2>1, AnswerType DEF Delete, WorkTypeOK
<1>10. ASSUME NEW c \in WriteCalls, Rename(c) PROVE WorkTypeOK'
  <2>1. call[c].op \in Ops /\ From(c) \in Paths /\ NoFile \in Content
    BY <1>10, CallPaths DEF Rename, WorkTypeOK, Busy, Content
  <2> QED
    BY <1>10, <2>1, AnswerType DEF Rename, WorkTypeOK
<1>11. ASSUME NEW c \in WriteCalls, CopyFile(c) PROVE WorkTypeOK'
  <2>1. call[c].op \in Ops /\ call[c].text \in Content /\ "copied" \in ToolStages
    BY <1>11 DEF CopyFile, WorkTypeOK, Busy, ToolStages
  <2> QED
    BY <1>11, <2>1, StepType DEF CopyFile, WorkTypeOK
<1>12. ASSUME NEW c \in WriteCalls, RemoveSource(c) \/ DropCopy(c) \/ ToolFails(c) PROVE WorkTypeOK'
  <2>1. NoFile \in Content
    BY DEF Content
  <2> QED
    BY <1>12, <2>1, AnswerType DEF RemoveSource, DropCopy, ToolFails, WorkTypeOK
<1>121. ASSUME NEW c \in WriteCalls, WriteFails(c) PROVE WorkTypeOK'
  <2>1. Answer(c) /\ UNCHANGED <<start, lock, store, rewind, acked, replaced>>
    BY <1>121 DEF WriteFails
  <2>2. file' \in [Paths -> Content] /\ spoiled' \subseteq acked'
    BY <1>121, <2>1, TornType, TextInType DEF WriteFails
  <2> QED
    BY <2>1, <2>2, AnswerType DEF WorkTypeOK
<1>122. ASSUME NEW c \in WriteCalls, PutBackFails(c) PROVE WorkTypeOK'
  <2>1. Answer(c) /\ acked' = acked \cup {c} /\ UNCHANGED <<start, lock, store, rewind, replaced>>
    BY <1>122 DEF PutBackFails
  <2>2. file' \in [Paths -> Content] /\ spoiled' \subseteq acked'
    BY <1>122, <2>1, TornType, TextInType DEF PutBackFails
  <2> QED
    BY <2>1, <2>2, AnswerType DEF WorkTypeOK
<1>13. ASSUME NEW c \in WriteCalls, Unlock(c) PROVE WorkTypeOK'
  <2>1. "done" \in ToolStages
    BY DEF ToolStages
  <2>2. lock' \in [Paths -> WriteCalls \cup {NoHolder}]
    BY <1>13 DEF Unlock, WorkTypeOK
  <2> QED
    BY <1>13, <2>1, <2>2, StepType DEF Unlock, WorkTypeOK
<1>14. CASE SnapshotPaths \/ BeginRewind \/ RewindFails
  <2>1. CASE SnapshotPaths
    BY <2>1 DEF SnapshotPaths, WorkTypeOK, Busy
  <2>2. CASE BeginRewind
    <3>1. rewinds' \in 0 .. MaxRewinds
      BY <2>2 DEF BeginRewind, WorkTypeOK
    <3> QED
      BY <2>2, <3>1 DEF BeginRewind, WorkTypeOK, Busy
  <2>3. CASE RewindFails
    BY <2>3 DEF RewindFails, WorkTypeOK, Busy
  <2> QED
    BY <1>14, <2>1, <2>2, <2>3
<1>15. ASSUME NEW p \in Paths, RewindFile(p) PROVE WorkTypeOK'
  <2>1. snap[p] \in Content /\ Rewound(snap[p]) \in Content
    BY <1>15 DEF RewindFile, WorkTypeOK, Rewound, Content
  <2>2. TextIn(file[p]) \subseteq WriteCalls \cup {Original}
    BY DEF WorkTypeOK, TextIn, Content, Text
  <2> QED
    BY <1>15, <2>1, <2>2 DEF RewindFile, WorkTypeOK, Busy
<1>16. CASE UNCHANGED workVars
  BY <1>16 DEF workVars, WorkTypeOK, Busy
<1> QED
  BY <1>1, <1>2, <1>3, <1>4, <1>5, <1>6, <1>7, <1>8, <1>9, <1>10, <1>11, <1>12, <1>121, <1>122,
     <1>13, <1>14, <1>15, <1>16 DEF WorkNext, CallSteps

\* Every variable of the working tree keeps its type, for every set of calls and paths.
THEOREM WorkTypeCorrect == WorkSpec => []WorkTypeOK
<1>1. WorkInit => WorkTypeOK
  BY WorkTypeInit
<1>2. WorkTypeOK /\ [WorkNext]_workVars => WorkTypeOK'
  BY WorkTypeStep
<1> QED
  BY <1>1, <1>2, PTL DEF WorkSpec

-----------------------------------------------------------------------------
(* BackupIsFirst is not inductive: a backup copies the file, so the file   *)
(* of a path not yet seen must still be as it was before the run, up to    *)
(* what a rewind does to an empty file; a rewind writes the snapshot, so   *)
(* the snapshot of such a path must be too; and a tool writes only paths   *)
(* that were seen, backed up or not.                                       *)
AsBefore(content, p) == content = start[p] \/ (start[p] = {} /\ content = NoFile /\ rewinds > 0)

Backed ==
  /\ \A n \in Names : backup[n] # NoFile => \E p \in Paths : NameOf[p] = n /\ backup[n] = start[p]
  /\ \A n \in absent : \E p \in Paths : NameOf[p] = n /\ AsBefore(NoFile, p)
FilesWait == \A p \in Paths \ seen : AsBefore(file[p], p)
SnapshotsWait == \A p \in Declared \ seen : AsBefore(snap[p], p)
ToBackUp(c) == \A p \in PathsOf(c) : p \in seen \/ \E i \in 1 .. Len(call[c].wants) : call[c].wants[i] = p
RewindIsCounted == toRewind # {} => rewinds > 0
WritersAreBacked ==
  \A c \in WriteCalls : /\ call[c].pc \in {"safe", "checking", "copied"} => PathsOf(c) \subseteq seen
                        /\ call[c].pc = "looked" => ToBackUp(c)
                        /\ call[c].pc = "copied" => call[c].op.kind = "mv"

BackupInv ==
  WorkTypeOK /\ Backed /\ FilesWait /\ SnapshotsWait /\ RewindIsCounted /\ WritersAreBacked

LEMMA BackupInit == WorkInit => BackupInv
<1> SUFFICES ASSUME WorkInit PROVE BackupInv
  OBVIOUS
<1>1. FilesWait /\ SnapshotsWait
  BY WorkTreePaths DEF WorkInit, FilesWait, SnapshotsWait, AsBefore
<1>2. Backed /\ RewindIsCounted /\ WritersAreBacked
  BY DEF WorkInit, Backed, RewindIsCounted, WritersAreBacked, NotCalled
<1> QED
  BY <1>1, <1>2, WorkTypeInit DEF BackupInv

\* A step that writes no file but those of paths already seen, and leaves the stores alone.
LEMMA WriteKeepsBackups ==
  ASSUME BackupInv, WorkTypeOK', UNCHANGED <<start, store, rewind>>,
         \A p \in Paths \ seen : file'[p] = file[p],
         \A c \in WriteCalls : call'[c].pc \in {"safe", "checking", "copied"} =>
           call[c].pc \in {"safe", "checking", "copied"} /\ call'[c].op = call[c].op
                                 /\ (call'[c].pc = "copied" => call[c].pc = "copied" \/ call[c].op.kind = "mv"),
         \A c \in WriteCalls : call'[c].pc = "looked" =>
           call'[c] = call[c] \/ call'[c].wants = call'[c].op.paths
  PROVE  (Backed /\ FilesWait /\ SnapshotsWait /\ RewindIsCounted /\ WritersAreBacked)'
<1>1. Backed' /\ SnapshotsWait' /\ RewindIsCounted'
  BY DEF BackupInv, Backed, SnapshotsWait, RewindIsCounted, AsBefore, store, rewind
<1>2. FilesWait'
  BY DEF BackupInv, FilesWait, AsBefore, store, rewind
<1>3. ASSUME NEW c \in WriteCalls, call'[c].pc = "looked" PROVE ToBackUp(c)'
  <2>1. CASE call'[c] = call[c]
    BY <1>3, <2>1 DEF BackupInv, WritersAreBacked, ToBackUp, PathsOf, store
  <2>2. CASE call'[c].wants = call'[c].op.paths
    <3>1. call'[c].wants \in Seq(Paths)
      BY DEF WorkTypeOK
    <3>2. DOMAIN call'[c].op.paths = 1 .. Len(call'[c].wants)
      BY <2>2, <3>1
    <3> QED
      BY <2>2, <3>2 DEF ToBackUp, PathsOf
  <2> QED
    BY <1>3, <2>1, <2>2
<1>4. WritersAreBacked'
  BY <1>3 DEF BackupInv, WritersAreBacked, PathsOf, store
<1> QED
  BY <1>1, <1>2, <1>4

\* How a call's own step moves its stage.
LEMMA StepMoves ==
  ASSUME WorkTypeOK, NEW c \in WriteCalls, NEW pc, Step(c, pc)
  PROVE  \A d \in WriteCalls : /\ call'[d].op = call[d].op
                               /\ call'[d].pc = IF d = c THEN pc ELSE call[d].pc
  BY DEF Step, WorkTypeOK

LEMMA StepElse ==
  ASSUME WorkTypeOK, NEW c \in WriteCalls, NEW pc, Step(c, pc), pc # "looked"
  PROVE  \A d \in WriteCalls : call'[d].pc = "looked" => call'[d] = call[d]
  BY DEF Step, WorkTypeOK

LEMMA AnswerMoves ==
  ASSUME WorkTypeOK, NEW c \in WriteCalls, Answer(c)
  PROVE  \A d \in WriteCalls : IF d = c THEN call'[d].pc = "leaving" ELSE call'[d] = call[d]
  BY DEF Answer, WorkTypeOK, NotCalled

LEMMA BackupStep == BackupInv /\ [WorkNext]_workVars => BackupInv'
<1> SUFFICES ASSUME BackupInv, [WorkNext]_workVars PROVE BackupInv'
  OBVIOUS
<1> DEFINE Rest == Backed /\ FilesWait /\ SnapshotsWait /\ RewindIsCounted /\ WritersAreBacked
<1>t. WorkTypeOK /\ WorkTypeOK'
  BY WorkTypeStep DEF BackupInv
<1>1. ASSUME NEW c \in WriteCalls,
             BeginCall(c) \/ TakeLock(c) \/ LookAt(c) \/ Refuse(c) \/ ToolFails(c) \/ Unlock(c)
      PROVE  Rest'
  <2>1. UNCHANGED <<file, start, store, rewind>>
    BY <1>1 DEF BeginCall, TakeLock, LookAt, Refuse, ToolFails, Unlock
  <2>2. \A d \in WriteCalls : call'[d].pc \in {"safe", "checking", "copied"} =>
          call[d].pc \in {"safe", "checking", "copied"} /\ call'[d].op = call[d].op
                                /\ (call'[d].pc = "copied" => call[d].pc = "copied" \/ call[d].op.kind = "mv")
    <3>a. CASE BeginCall(c)
      BY <1>t, <3>a DEF BeginCall, WorkTypeOK, NotCalled
    <3>b. CASE TakeLock(c)
      BY <1>t, <3>b DEF TakeLock, WorkTypeOK
    <3>c. CASE LookAt(c)
      BY <1>t, <3>c DEF LookAt, WorkTypeOK
    <3>2. CASE Refuse(c) \/ ToolFails(c)
      BY <1>t, <3>2, AnswerMoves DEF Refuse, ToolFails
    <3>3. CASE Unlock(c)
      BY <1>t, <3>3, StepMoves DEF Unlock
    <3> QED
      BY <1>1, <3>a, <3>b, <3>c, <3>2, <3>3
  <2>3. \A d \in WriteCalls : call'[d].pc = "looked" => call'[d] = call[d] \/ call'[d].wants = call'[d].op.paths
    <3>a. CASE BeginCall(c)
      BY <1>t, <3>a DEF BeginCall, WorkTypeOK, NotCalled
    <3>b. CASE TakeLock(c)
      BY <1>t, <3>b DEF TakeLock, WorkTypeOK
    <3>c. CASE LookAt(c)
      BY <1>t, <3>c DEF LookAt, WorkTypeOK
    <3>2. CASE Refuse(c) \/ ToolFails(c)
      BY <1>t, <3>2, AnswerMoves DEF Refuse, ToolFails
    <3>3. CASE Unlock(c)
      BY <1>t, <3>3, StepElse DEF Unlock
    <3> QED
      BY <1>1, <3>a, <3>b, <3>c, <3>2, <3>3
  <2> QED
    BY <1>t, <2>1, <2>2, <2>3, WriteKeepsBackups
<1>2. ASSUME NEW c \in WriteCalls, BackupIfNeeded(c) PROVE Rest'
  <2> DEFINE q == Head(call[c].wants)
  <2>1. /\ q \in Paths /\ call[c].wants \in Seq(Paths) /\ call[c].wants # <<>> /\ call[c].pc = "looked"
        /\ seen' = seen \cup {q} /\ UNCHANGED <<file, start, snap, rewinds, toRewind>>
        /\ UNCHANGED <<backup, absent>> \/ (q \notin seen /\ SaveBackup(q))
    BY <1>2, <1>t, BackupMoves DEF BackupIfNeeded, BackedUp, rewind
  <2>2. /\ call'[c].op = call[c].op /\ call'[c].wants = Tail(call[c].wants)
        /\ call'[c].pc = IF Tail(call[c].wants) = <<>> THEN "safe" ELSE "looked"
        /\ \A d \in WriteCalls : d # c => call'[d] = call[d]
    BY <1>2, <1>t, BackupMoves
  <2>3. Backed'
    <3>1. CASE UNCHANGED <<backup, absent>>
      <4>1. UNCHANGED <<start, rewinds, backup, absent>>
        BY <2>1, <3>1
      <4> QED
        BY <4>1 DEF BackupInv, Backed, AsBefore
    <3>2. CASE q \notin seen /\ SaveBackup(q)
      <4>1. AsBefore(file[q], q)
        BY <2>1, <3>2 DEF BackupInv, FilesWait
      <4>2. CASE file[q] = NoFile
        <5>1. absent' = absent \cup {NameOf[q]} /\ UNCHANGED <<backup, start, rewinds>>
          BY <2>1, <3>2, <4>2 DEF SaveBackup
        <5>2. AsBefore(NoFile, q)
          BY <4>1, <4>2
        <5>3. \A n \in absent' : \E p \in Paths : NameOf[p] = n /\ AsBefore(NoFile, p)
          <6> SUFFICES ASSUME NEW n \in absent' PROVE \E p \in Paths : NameOf[p] = n /\ AsBefore(NoFile, p)
            OBVIOUS
          <6>1. CASE n = NameOf[q]
            BY <2>1, <5>2, <6>1
          <6>2. CASE n # NameOf[q]
            BY <5>1, <6>2 DEF BackupInv, Backed
          <6> QED
            BY <6>1, <6>2
        <5>4. \A p : AsBefore(NoFile, p) => AsBefore(NoFile, p)'
          BY <5>1 DEF AsBefore
        <5> QED
          BY <5>1, <5>3, <5>4 DEF BackupInv, Backed
      <4>3. CASE file[q] # NoFile
        <5>1. backup' = [backup EXCEPT ![NameOf[q]] = file[q]] /\ UNCHANGED <<absent, start, rewinds>>
          BY <2>1, <3>2, <4>3 DEF SaveBackup
        <5>2. file[q] = start[q]
          BY <4>1, <4>3 DEF AsBefore
        <5>3. \A n \in Names : backup'[n] = IF n = NameOf[q] THEN start[q] ELSE backup[n]
          BY <1>t, <5>1, <5>2 DEF WorkTypeOK
        <5>4. \A n \in Names : backup'[n] # NoFile => \E p \in Paths : NameOf[p] = n /\ backup'[n] = start'[p]
          <6> SUFFICES ASSUME NEW n \in Names, backup'[n] # NoFile
                       PROVE  \E p \in Paths : NameOf[p] = n /\ backup'[n] = start[p]
            BY <5>1
          <6>1. CASE n = NameOf[q]
            BY <2>1, <5>3, <6>1
          <6>2. CASE n # NameOf[q]
            BY <5>3, <6>2 DEF BackupInv, Backed
          <6> QED
            BY <6>1, <6>2
        <5>5. \A n \in absent' : \E p \in Paths : NameOf[p] = n /\ AsBefore(NoFile, p)'
          BY <5>1 DEF BackupInv, Backed, AsBefore
        <5> QED
          BY <5>4, <5>5 DEF Backed
      <4> QED
        BY <4>2, <4>3
    <3> QED
      BY <2>1, <3>1, <3>2
  <2>4. (FilesWait /\ SnapshotsWait /\ RewindIsCounted)'
    BY <2>1 DEF BackupInv, FilesWait, SnapshotsWait, RewindIsCounted, AsBefore
  <2>5. ASSUME NEW p \in PathsOf(c)
        PROVE  p \in seen' \/ \E i \in 1 .. Len(call'[c].wants) : call'[c].wants[i] = p
    <3>1. CASE p \in seen \cup {q}
      BY <2>1, <3>1
    <3>2. CASE p \notin seen \cup {q}
      <4>1. PICK i \in 1 .. Len(call[c].wants) : call[c].wants[i] = p
        BY <2>1, <2>5, <3>2 DEF BackupInv, WritersAreBacked, ToBackUp
      <4>2. i # 1
        BY <2>1, <3>2, <4>1
      <4>3. i - 1 \in 1 .. Len(Tail(call[c].wants)) /\ Tail(call[c].wants)[i - 1] = p
        BY <2>1, <4>1, <4>2
      <4> QED
        BY <2>2, <4>3
    <3> QED
      BY <3>1, <3>2
  <2>6. PathsOf(c)' = PathsOf(c)
    BY <2>2 DEF PathsOf
  <2>7. /\ call'[c].pc \in {"safe", "checking", "copied"} => PathsOf(c)' \subseteq seen'
        /\ call'[c].pc = "looked" => ToBackUp(c)'
        /\ call'[c].pc # "copied"
    <3>1. ToBackUp(c)'
      BY <2>5, <2>6 DEF ToBackUp
    <3>2. CASE Tail(call[c].wants) = <<>>
      <4>a. call'[c].wants = <<>>
        BY <2>2, <3>2
      <4>1. Len(call'[c].wants) = 0
        BY <4>a
      <4>2. 1 .. Len(call'[c].wants) = {}
        BY <4>1
      <4>3. ASSUME NEW p \in PathsOf(c) PROVE p \in seen'
        <5>1. p \in seen' \/ \E i \in 1 .. Len(call'[c].wants) : call'[c].wants[i] = p
          BY <2>5
        <5> QED
          BY <4>2, <5>1
      <4> QED
        BY <2>2, <2>6, <3>2, <4>3
    <3>3. CASE Tail(call[c].wants) # <<>>
      BY <2>2, <3>1, <3>3
    <3> QED
      BY <3>2, <3>3
  <2>8. WritersAreBacked'
    <3> SUFFICES ASSUME NEW d \in WriteCalls
                 PROVE  /\ call'[d].pc \in {"safe", "checking", "copied"} => PathsOf(d)' \subseteq seen'
                        /\ call'[d].pc = "looked" => ToBackUp(d)'
                        /\ call'[d].pc = "copied" => call'[d].op.kind = "mv"
      BY DEF WritersAreBacked
    <3>1. CASE d = c
      BY <2>7, <3>1
    <3>2. CASE d # c
      <4>1. call'[d] = call[d] /\ PathsOf(d)' = PathsOf(d) /\ seen \subseteq seen'
        BY <2>1, <2>2, <3>2 DEF PathsOf
      <4>2. call[d].pc = "looked" => ToBackUp(d)'
        BY <4>1 DEF BackupInv, WritersAreBacked, ToBackUp
      <4> QED
        BY <4>1, <4>2 DEF BackupInv, WritersAreBacked
    <3> QED
      BY <3>1, <3>2
  <2> QED
    BY <2>3, <2>4, <2>8
<1>3. ASSUME NEW c \in WriteCalls, ApplyText(c) \/ CopyFile(c) PROVE Rest'
  <2>1. call[c].op \in Ops /\ call[c].pc = "safe"
    BY <1>3, <1>t DEF ApplyText, CopyFile, WorkTypeOK, Busy
  <2>2. From(c) \in seen /\ (call[c].op.kind = "mv" => To(c) \in seen)
    BY <2>1, <1>t, CallPaths DEF BackupInv, WritersAreBacked
  <2>3. UNCHANGED <<start, store, rewind>> /\ \A p \in Paths \ seen : file'[p] = file[p]
    BY <1>3, <1>t, <2>2 DEF ApplyText, CopyFile, WorkTypeOK
  <2>4. \A d \in WriteCalls : call'[d].pc \in {"safe", "checking", "copied"} =>
          call[d].pc \in {"safe", "checking", "copied"} /\ call'[d].op = call[d].op
                                /\ (call'[d].pc = "copied" => call[d].pc = "copied" \/ call[d].op.kind = "mv")
    BY <1>3, <1>t, <2>1, StepMoves DEF ApplyText, CopyFile
  <2>5. \A d \in WriteCalls : call'[d].pc = "looked" => call'[d] = call[d] \/ call'[d].wants = call'[d].op.paths
    BY <1>3, <1>t, StepElse DEF ApplyText, CopyFile
  <2> QED
    BY <1>t, <2>3, <2>4, <2>5, WriteKeepsBackups
<1>4. ASSUME NEW c \in WriteCalls,
             \/ KeepText(c) \/ PutBack(c) \/ Delete(c) \/ Rename(c) \/ RemoveSource(c) \/ DropCopy(c)
             \/ WriteFails(c) \/ PutBackFails(c)
      PROVE  Rest'
  <2>1. call[c].op \in Ops /\ call[c].pc \in {"safe", "checking", "copied"} /\ Answer(c)
    BY <1>4, <1>t DEF KeepText, PutBack, Delete, Rename, RemoveSource, DropCopy, WriteFails, PutBackFails,
         WorkTypeOK, Busy
  <2>2. From(c) \in seen /\ (call[c].op.kind = "mv" => To(c) \in seen)
    BY <2>1, <1>t, CallPaths DEF BackupInv, WritersAreBacked
  <2>3. UNCHANGED <<start, store, rewind>>
    BY <1>4 DEF KeepText, PutBack, Delete, Rename, RemoveSource, DropCopy, WriteFails, PutBackFails
  <2>4. \A p \in Paths \ seen : file'[p] = file[p]
    <3>1. CASE KeepText(c) \/ PutBack(c) \/ Delete(c) \/ Rename(c) \/ RemoveSource(c)
      BY <3>1, <1>t, <2>2 DEF KeepText, PutBack, Delete, Rename, RemoveSource, WorkTypeOK
    <3>2. CASE DropCopy(c)
      BY <3>2, <1>t, <2>2 DEF DropCopy, WorkTypeOK, BackupInv, WritersAreBacked
    <3>3. CASE WriteFails(c) \/ PutBackFails(c)
      <4>1. \E p \in seen : \E rest : file' = [file EXCEPT ![p] = rest]
        BY <3>3, <2>2 DEF WriteFails, PutBackFails, TornWrite
      <4> QED
        BY <4>1, <1>t DEF WorkTypeOK
    <3> QED
      BY <1>4, <3>1, <3>2, <3>3
  <2>5. \A d \in WriteCalls : call'[d].pc \in {"safe", "checking", "copied"} =>
          call[d].pc \in {"safe", "checking", "copied"} /\ call'[d].op = call[d].op
                                /\ (call'[d].pc = "copied" => call[d].pc = "copied" \/ call[d].op.kind = "mv")
    BY <1>t, <2>1, AnswerMoves
  <2>6. \A d \in WriteCalls : call'[d].pc = "looked" => call'[d] = call[d]
    BY <1>t, <2>1, AnswerMoves
  <2> QED
    BY <1>t, <2>3, <2>4, <2>5, <2>6, WriteKeepsBackups
<1>5. ASSUME SnapshotPaths PROVE Rest'
  <2>1. UNCHANGED <<file, start, call, store, rewinds, toRewind>> /\ snap' = [p \in Declared |-> file[p]]
    BY <1>5 DEF SnapshotPaths, calls
  <2>2. SnapshotsWait'
    BY <2>1, WorkTreePaths DEF BackupInv, FilesWait, SnapshotsWait, AsBefore, store
  <2>3. (Backed /\ FilesWait)'
    BY <2>1 DEF BackupInv, Backed, FilesWait, AsBefore, store
  <2>4. (RewindIsCounted /\ WritersAreBacked)'
    BY <2>1 DEF BackupInv, RewindIsCounted, WritersAreBacked, ToBackUp, PathsOf, store
  <2> QED
    BY <2>2, <2>3, <2>4
<1>6. ASSUME BeginRewind PROVE Rest'
  <2>1. UNCHANGED <<file, start, call, store, snap>> /\ rewinds' = rewinds + 1 /\ rewinds \in Nat
    BY <1>6, <1>t, WorkTreePaths DEF BeginRewind, WorkTypeOK, calls
  <2>2. rewinds' > 0
    BY <2>1
  <2>3. Backed'
    BY <2>1, <2>2 DEF BackupInv, Backed, AsBefore, store
  <2>4. (FilesWait /\ SnapshotsWait)'
    BY <2>1, <2>2 DEF BackupInv, FilesWait, SnapshotsWait, AsBefore, store
  <2>5. (RewindIsCounted /\ WritersAreBacked)'
    BY <2>1, <2>2 DEF BackupInv, RewindIsCounted, WritersAreBacked, ToBackUp, PathsOf, store
  <2> QED
    BY <2>3, <2>4, <2>5
<1>7. ASSUME NEW p \in Paths, RewindFile(p) PROVE Rest'
  <2>1. /\ p \in toRewind /\ toRewind' \subseteq toRewind /\ rewinds > 0 /\ p \in Declared
        /\ file' = [file EXCEPT ![p] = Rewound(snap[p])]
        /\ UNCHANGED <<start, call, store, snap, rewinds>>
    BY <1>7, <1>t DEF RewindFile, BackupInv, RewindIsCounted, WorkTypeOK, calls
  <2>2. FilesWait'
    <3>1. p \notin seen => AsBefore(Rewound(snap[p]), p)
      BY <2>1 DEF BackupInv, SnapshotsWait, AsBefore, Rewound
    <3> QED
      BY <2>1, <3>1, <1>t DEF BackupInv, FilesWait, AsBefore, WorkTypeOK, store
  <2>3. (Backed /\ SnapshotsWait)'
    BY <2>1 DEF BackupInv, Backed, SnapshotsWait, AsBefore, store
  <2>4. (RewindIsCounted /\ WritersAreBacked)'
    BY <2>1 DEF BackupInv, RewindIsCounted, WritersAreBacked, ToBackUp, PathsOf, store
  <2> QED
    BY <2>2, <2>3, <2>4
<1>8. ASSUME RewindFails \/ UNCHANGED workVars PROVE Rest'
  <2>1. UNCHANGED <<file, start, call, store, snap, rewinds>> /\ toRewind' \in {{}, toRewind}
    BY <1>8 DEF RewindFails, workVars, calls, rewind
  <2>2. (Backed /\ FilesWait /\ SnapshotsWait)'
    BY <2>1 DEF BackupInv, Backed, FilesWait, SnapshotsWait, AsBefore, store
  <2>3. (RewindIsCounted /\ WritersAreBacked)'
    BY <2>1 DEF BackupInv, RewindIsCounted, WritersAreBacked, ToBackUp, PathsOf, store
  <2> QED
    BY <2>2, <2>3
<1>9. Rest'
  BY <1>1, <1>2, <1>3, <1>4, <1>5, <1>6, <1>7, <1>8 DEF WorkNext, CallSteps
<1> QED
  BY <1>9, <1>t DEF BackupInv

\* Whatever the checkpoint store says of a name, some path of that name was so before the
\* run, however many calls race for it, whichever backups fail, and whatever rewinds come in between.
THEOREM BackupsAreOriginal == WorkSpec => []BackupIsFirst
<1>1. WorkInit => BackupInv
  BY BackupInit
<1>2. BackupInv /\ [WorkNext]_workVars => BackupInv'
  BY BackupStep
<1>3. BackupInv => BackupIsFirst
  BY DEF BackupInv, Backed, AsBefore, BackupIsFirst
<1> QED
  BY <1>1, <1>2, <1>3, PTL DEF WorkSpec

-----------------------------------------------------------------------------
(* NoEditLost rests on the locks: a call that has read its file holds its  *)
(* paths until it has answered, so nobody but a rewind comes between.      *)
HasRead == {"looked", "safe", "checking", "copied"}
Working(c) == call[c].pc \in HasRead
StillWants(c, p) == \E i \in 1 .. Len(call[c].wants) : call[c].wants[i] = p

LocksInv ==
  \A c \in WriteCalls : \A p \in PathsOf(c) :
    /\ Working(c) => lock[p] = c
    /\ call[c].pc = "locking" => lock[p] = c \/ StillWants(c, p)

LEMMA WantedCovers ==
  ASSUME NEW op \in Ops, NEW i \in DOMAIN op.paths
  PROVE  \E j \in 1 .. Len(Wanted(op.paths)) : Wanted(op.paths)[j] = op.paths[i]
<1>1. CASE \E p \in Paths : op.paths = <<p>>
  BY <1>1 DEF Wanted
<1>2. CASE \E p \in Paths, q \in Paths : op.paths = <<p, q>>
  <2>1. PICK p \in Paths, q \in Paths : op.paths = <<p, q>>
    BY <1>2
  <2>2. i \in {1, 2}
    BY <2>1
  <2>3. CASE p = q
    BY <2>1, <2>2, <2>3 DEF Wanted
  <2>4. CASE p # q /\ q < p
    BY <2>1, <2>2, <2>4 DEF Wanted
  <2>5. CASE p # q /\ ~(q < p)
    BY <2>1, <2>2, <2>5 DEF Wanted
  <2> QED
    BY <2>3, <2>4, <2>5
<1> QED
  BY <1>1, <1>2 DEF Ops

\* What a step of a call leaves alone.
LEMMA StepLeaves ==
  ASSUME WorkTypeOK, NEW c \in WriteCalls, NEW pc, Step(c, pc)
  PROVE  /\ \A d \in WriteCalls : d # c => call'[d] = call[d]
         /\ call'[c].pc = pc /\ call'[c].op = call[c].op /\ call'[c].text = call[c].text
         /\ call'[c].wants = call[c].wants
  BY DEF Step, WorkTypeOK

LEMMA AnswerLeaves ==
  ASSUME WorkTypeOK, NEW c \in WriteCalls, Answer(c)
  PROVE  call'[c].pc = "leaving" /\ \A d \in WriteCalls : d # c => call'[d] = call[d]
  BY DEF Answer, WorkTypeOK, NotCalled

\* A call that gives up its locks' protection, or keeps what it holds, does not disturb LocksInv.
LEMMA HeldLocksStay ==
  ASSUME LocksInv, UNCHANGED lock,
         \A d \in WriteCalls : \/ call'[d] = call[d]
                               \/ call'[d].pc \in {"leaving", "done"}
                               \/ Working(d) /\ call'[d].op = call[d].op /\ call'[d].pc # "locking"
                               \/ Ready(d) /\ call'[d].op = call[d].op /\ call'[d].pc # "locking"
  PROVE  LocksInv'
<1> SUFFICES ASSUME NEW d \in WriteCalls, NEW p \in PathsOf(d)'
             PROVE  /\ Working(d)' => lock[p] = d
                    /\ call'[d].pc = "locking" => lock[p] = d \/ StillWants(d, p)'
  BY DEF LocksInv
<1>1. CASE call'[d] = call[d]
  BY <1>1 DEF LocksInv, PathsOf, Working, StillWants
<1>2. CASE call'[d].pc \in {"leaving", "done"}
  BY <1>2 DEF Working, HasRead
<1>3. CASE Working(d) /\ call'[d].op = call[d].op /\ call'[d].pc # "locking"
  BY <1>3 DEF LocksInv, PathsOf
<1>4. CASE Ready(d) /\ call'[d].op = call[d].op /\ call'[d].pc # "locking"
  <2>1. ~StillWants(d, p)
    BY <1>4 DEF Ready, StillWants
  <2> QED
    BY <1>4, <2>1 DEF LocksInv, PathsOf, Ready
<1> QED
  BY <1>1, <1>2, <1>3, <1>4

LEMMA LocksStep == WorkTypeOK /\ LocksInv /\ [WorkNext]_workVars => LocksInv'
<1> SUFFICES ASSUME WorkTypeOK, LocksInv, [WorkNext]_workVars PROVE LocksInv'
  OBVIOUS
<1>1. ASSUME NEW c \in WriteCalls, BeginCall(c) PROVE LocksInv'
  <2>1. PICK op \in Ops : call' = [call EXCEPT ![c] = [NotCalled EXCEPT !.op = op, !.pc = "locking",
                                                                           !.wants = Wanted(op.paths)]]
    BY <1>1 DEF BeginCall
  <2>2. /\ call'[c].op = op /\ call'[c].pc = "locking" /\ call'[c].wants = Wanted(op.paths)
        /\ \A d \in WriteCalls : d # c => call'[d] = call[d]
    BY <2>1 DEF NotCalled, WorkTypeOK
  <2>3. \A p \in PathsOf(c)' : StillWants(c, p)'
    BY <2>2, WantedCovers DEF PathsOf, StillWants
  <2>4. UNCHANGED lock
    BY <1>1 DEF BeginCall
  <2>5. ASSUME NEW d \in WriteCalls, d # c, NEW p \in PathsOf(d)'
        PROVE  /\ Working(d)' => lock'[p] = d
               /\ call'[d].pc = "locking" => lock'[p] = d \/ StillWants(d, p)'
    BY <2>2, <2>4, <2>5 DEF LocksInv, Working, PathsOf, StillWants
  <2> QED
    BY <2>2, <2>3, <2>5 DEF LocksInv, Working, HasRead
<1>2. ASSUME NEW c \in WriteCalls, TakeLock(c) PROVE LocksInv'
  <2> DEFINE h == Head(call[c].wants)
  <2>1. /\ call[c].pc = "locking" /\ call[c].wants # <<>> /\ lock[h] = NoHolder
        /\ call[c].wants \in Seq(Paths)
        /\ lock' = [lock EXCEPT ![h] = c] /\ lock \in [Paths -> WriteCalls \cup {NoHolder}]
    BY <1>2 DEF TakeLock, WorkTypeOK
  <2>2. /\ call'[c].op = call[c].op /\ call'[c].pc = "locking" /\ call'[c].wants = Tail(call[c].wants)
        /\ \A d \in WriteCalls : d # c => call'[d] = call[d]
    BY <1>2 DEF TakeLock, WorkTypeOK
  <2>3. h \in Paths /\ lock'[h] = c /\ \A p \in Paths : p # h => lock'[p] = lock[p]
    BY <2>1
  <2>4. \A p \in Paths : lock[p] \in WriteCalls => lock'[p] = lock[p]
    BY <2>1, <2>3, WorkTreeTexts
  <2>5. ASSUME NEW p, StillWants(c, p) PROVE p = h \/ StillWants(c, p)'
    <3>1. PICK i \in 1 .. Len(call[c].wants) : call[c].wants[i] = p
      BY <2>5 DEF StillWants
    <3>2. CASE i = 1
      BY <2>1, <3>1, <3>2
    <3>3. CASE i # 1
      <4>1. i - 1 \in 1 .. Len(Tail(call[c].wants)) /\ Tail(call[c].wants)[i - 1] = p
        BY <2>1, <3>1, <3>3
      <4> QED
        BY <2>2, <4>1 DEF StillWants
    <3> QED
      BY <3>2, <3>3
  <2>6. \A p \in PathsOf(c) : p \in Paths
    BY <2>1, CallPaths DEF WorkTypeOK, Busy
  <2>7. ASSUME NEW p \in PathsOf(c)' PROVE lock'[p] = c \/ StillWants(c, p)'
    <3>1. p \in PathsOf(c) /\ p \in Paths
      BY <2>2, <2>6, <2>7 DEF PathsOf
    <3> QED
      BY <2>1, <2>3, <2>4, <2>5, <3>1 DEF LocksInv
  <2>8. ASSUME NEW d \in WriteCalls, d # c, NEW p \in PathsOf(d)'
        PROVE  /\ Working(d)' => lock'[p] = d
               /\ call'[d].pc = "locking" => lock'[p] = d \/ StillWants(d, p)'
    <3>1. call'[d] = call[d] /\ p \in PathsOf(d)
      BY <2>2, <2>8 DEF PathsOf
    <3>2. call[d].pc \in HasRead \cup {"locking"} => p \in Paths
      BY <3>1, CallPaths DEF WorkTypeOK, Busy, HasRead
    <3> QED
      BY <2>4, <3>1, <3>2 DEF LocksInv, Working, StillWants
  <2> QED
    BY <2>2, <2>7, <2>8 DEF LocksInv, Working, HasRead
<1>3. ASSUME NEW c \in WriteCalls, Unlock(c) PROVE LocksInv'
  <2>1. /\ call'[c].pc = "done" /\ \A d \in WriteCalls : d # c => call'[d] = call[d]
        /\ lock' = [p \in Paths |-> IF lock[p] = c THEN NoHolder ELSE lock[p]]
    BY <1>3, StepLeaves DEF Unlock, HoldsLock
  <2>2. ASSUME NEW d \in WriteCalls, d # c, NEW p \in PathsOf(d)'
        PROVE  /\ Working(d)' => lock'[p] = d
               /\ call'[d].pc = "locking" => lock'[p] = d \/ StillWants(d, p)'
    <3>1. call'[d] = call[d] /\ p \in PathsOf(d)
      BY <2>1, <2>2 DEF PathsOf
    <3>2. call[d].pc \in HasRead \cup {"locking"} => p \in Paths
      BY <3>1, CallPaths DEF WorkTypeOK, Busy, HasRead
    <3> QED
      BY <2>1, <2>2, <3>1, <3>2 DEF LocksInv, Working, StillWants
  <2> QED
    BY <2>1, <2>2 DEF LocksInv, Working, HasRead
<1>4. ASSUME NEW c \in WriteCalls, LookAt(c) PROVE LocksInv'
  <2>1. UNCHANGED lock /\ Ready(c) /\ call'[c].op = call[c].op /\ call'[c].pc = "looked"
        /\ \A d \in WriteCalls : d # c => call'[d] = call[d]
    BY <1>4 DEF LookAt, WorkTypeOK
  <2> QED
    BY <2>1, HeldLocksStay
<1>51. ASSUME NEW c \in WriteCalls, BackupIfNeeded(c) PROVE LocksInv'
  <2>1. UNCHANGED lock /\ Working(c) /\ call'[c].op = call[c].op /\ call'[c].pc \in {"looked", "safe"}
          /\ \A d \in WriteCalls : d # c => call'[d] = call[d]
    BY <1>51, BackupMoves DEF BackupIfNeeded, BackedUp, Working, HasRead
  <2> QED
    BY <2>1, HeldLocksStay
<1>5. ASSUME NEW c \in WriteCalls, ApplyText(c) \/ CopyFile(c) PROVE LocksInv'
  <2>1. UNCHANGED lock /\ Working(c) /\ \E pc \in {"checking", "copied"} : Step(c, pc)
    BY <1>5 DEF ApplyText, CopyFile, Working, HasRead
  <2> QED
    BY <2>1, StepLeaves, HeldLocksStay
<1>6. ASSUME NEW c \in WriteCalls,
             \/ Refuse(c) \/ KeepText(c) \/ PutBack(c) \/ Delete(c) \/ Rename(c)
             \/ RemoveSource(c) \/ DropCopy(c) \/ ToolFails(c) \/ WriteFails(c) \/ PutBackFails(c)
      PROVE  LocksInv'
  <2>1. UNCHANGED lock /\ Answer(c)
    BY <1>6 DEF Refuse, KeepText, PutBack, Delete, Rename, RemoveSource, DropCopy, ToolFails, WriteFails,
         PutBackFails
  <2> QED
    BY <2>1, AnswerLeaves, HeldLocksStay
<1>7. CASE SnapshotPaths \/ BeginRewind \/ RewindFails \/ (\E p \in Paths : RewindFile(p)) \/ UNCHANGED workVars
  <2>1. UNCHANGED <<lock, call>>
    BY <1>7 DEF SnapshotPaths, BeginRewind, RewindFails, RewindFile, workVars, calls
  <2> QED
    BY <2>1, HeldLocksStay
<1> QED
  BY <1>1, <1>2, <1>3, <1>4, <1>51, <1>5, <1>6, <1>7 DEF WorkNext, CallSteps

\* Two calls that have read share no path.
LEMMA NoSharedPath ==
  ASSUME LocksInv, NEW c \in WriteCalls, NEW d \in WriteCalls, Working(c), Working(d),
         NEW p, p \in PathsOf(c), p \in PathsOf(d)
  PROVE  c = d
  BY DEF LocksInv

(* What a call under way knows of its files.  A rewind may have written    *)
(* them since, and has then marked the call and the text it replaced.      *)
ShapeInv ==
  \A c \in WriteCalls : /\ call[c].pc = "checking" => Writes(c)
                        /\ call[c].pc = "copied" => call[c].op.kind = "mv"
                        /\ Working(c) /\ call[c].op.kind = "mv" => From(c) # To(c)
OwnTextInv ==
  \A c \in WriteCalls : call[c].pc = "checking" => c \in replaced \/ c \in TextIn(file[From(c)])
CopyInv ==
  \A c \in WriteCalls : call[c].pc = "copied" =>
    file[To(c)] = call[c].text \/ TextIn(call[c].text) \subseteq replaced

(* A text lives in a file if whoever works on the file has it too; or in   *)
(* the hands of a whole-file write that may still put it back.             *)
LivesAt(e, p) ==
  /\ e \in TextIn(file[p])
  /\ \A c \in WriteCalls : Working(c) /\ p \in PathsOf(c) => p = From(c) /\ e \in TextIn(call[c].text)
HeldBy(e, c) == call[c].pc = "checking" /\ call[c].op.kind = "write" /\ e \in TextIn(call[c].text)

Kept == acked \ (replaced \cup spoiled)
TextsInv == \A e \in Kept :
  (\E p \in Paths : LivesAt(e, p)) \/ (\E c \in WriteCalls : HeldBy(e, c))

LostInv == WorkTypeOK /\ LocksInv /\ ShapeInv /\ OwnTextInv /\ CopyInv /\ TextsInv

LEMMA LostInit == WorkInit => LostInv
<1> SUFFICES ASSUME WorkInit PROVE LostInv
  OBVIOUS
<1>1. \A c \in WriteCalls : call[c].pc = "idle"
  BY DEF WorkInit, NotCalled
<1>2. acked = {}
  BY DEF WorkInit
<1> QED
  BY <1>1, <1>2, WorkTypeInit
     DEF LostInv, LocksInv, ShapeInv, OwnTextInv, CopyInv, TextsInv, Kept, Working, HasRead

\* Two different files are written by calls that have read; nobody else works on either.
LEMMA OthersPathsApart ==
  ASSUME WorkTypeOK, LocksInv, NEW c \in WriteCalls, Working(c), NEW d \in WriteCalls, d # c, Working(d)
  PROVE  /\ From(c) \in Paths /\ From(d) \in Paths /\ From(d) # From(c)
         /\ From(c) \notin PathsOf(d)
         /\ call[c].op.kind = "mv" => To(c) \in Paths /\ To(c) # From(d) /\ To(c) \notin PathsOf(d)
         /\ call[d].op.kind = "mv" => To(d) \in Paths /\ To(d) # From(c)
         /\ call[c].op.kind = "mv" /\ call[d].op.kind = "mv" => To(c) # To(d)
<1>1. call[c].op \in Ops /\ call[d].op \in Ops
  BY DEF WorkTypeOK, Busy, Working, HasRead
<1> QED
  BY <1>1, CallPaths, NoSharedPath

LEMMA WorkersOps ==
  ASSUME WorkTypeOK, NEW c \in WriteCalls, Working(c)
  PROVE  /\ call[c].op \in Ops /\ From(c) \in Paths /\ From(c) \in PathsOf(c)
         /\ call[c].op.kind = "mv" => To(c) \in Paths /\ To(c) \in PathsOf(c)
<1>1. call[c].op \in Ops
  BY DEF WorkTypeOK, Busy, Working, HasRead
<1> QED
  BY <1>1, CallPaths

\* An operation with one path works on no other.
LEMMA OnePath ==
  ASSUME NEW c \in WriteCalls, call[c].op \in Ops, NEW p \in PathsOf(c)
  PROVE  p = From(c) \/ (call[c].op.kind = "mv" /\ p = To(c))
<1>1. CASE \E q \in Paths : call[c].op.paths = <<q>>
  BY <1>1 DEF PathsOf, From
<1>2. CASE call[c].op.kind = "mv" /\ \E q \in Paths, r \in Paths : call[c].op.paths = <<q, r>>
  BY <1>2 DEF PathsOf, From, To
<1> QED
  BY <1>1, <1>2 DEF Ops

\* The text a call writes is in the file it wrote.
LEMMA WrittenText ==
  ASSUME WorkTypeOK, NEW c \in WriteCalls
  PROVE  /\ TextIn(NewText(c)) = NewText(c) /\ c \in NewText(c)
         /\ call[c].op.kind # "write" => TextIn(call[c].text) \subseteq NewText(c)
<1>1. TextIn(call[c].text) \in SUBSET (WriteCalls \cup {Original})
  BY DEF WorkTypeOK, TextIn, Content, Text
<1>2. NewText(c) \in SUBSET (WriteCalls \cup {Original})
  BY <1>1 DEF NewText
<1> QED
  BY <1>1, <1>2, WorkTreeNoFile DEF NewText, TextIn

\* A step that touches no file and no text that is under way.
LEMMA QuietStep ==
  ASSUME LostInv, UNCHANGED <<file, acked, replaced, spoiled>>,
         \A d \in WriteCalls : call'[d] = call[d] \/ (call[d].pc # "checking" /\ ~Working(d)')
  PROVE  (ShapeInv /\ OwnTextInv /\ CopyInv /\ TextsInv)'
<1>1. (ShapeInv /\ OwnTextInv /\ CopyInv)'
  BY DEF LostInv, ShapeInv, OwnTextInv, CopyInv, Writes, Working, HasRead, From, To
<1>2. \A e, p : LivesAt(e, p) => LivesAt(e, p)'
  BY DEF LivesAt, Working, PathsOf, From
<1>3. \A e : \A c \in WriteCalls : HeldBy(e, c) => HeldBy(e, c)'
  BY DEF HeldBy
<1>4. TextsInv'
  BY <1>2, <1>3 DEF LostInv, TextsInv, Kept
<1> QED
  BY <1>1, <1>4

\* What a call that has read does to its own files leaves the other calls' knowledge intact.
LEMMA OthersKnow ==
  ASSUME LostInv, NEW c \in WriteCalls, Working(c), replaced \subseteq replaced',
         \A p \in Paths \ PathsOf(c) : file'[p] = file[p],
         NEW d \in WriteCalls, d # c, call'[d] = call[d]
  PROVE  /\ call'[d].pc = "checking" => Writes(d)'
         /\ call'[d].pc = "copied" => call'[d].op.kind = "mv"
         /\ Working(d)' /\ call'[d].op.kind = "mv" => From(d)' # To(d)'
         /\ call'[d].pc = "checking" => d \in replaced' \/ d \in TextIn(file'[From(d)'])
         /\ call'[d].pc = "copied" =>
              file'[To(d)'] = call'[d].text \/ TextIn(call'[d].text) \subseteq replaced'
<1>1. From(d)' = From(d) /\ To(d)' = To(d) /\ (Writes(d)' <=> Writes(d)) /\ (Working(d)' <=> Working(d))
  BY DEF From, To, Writes, Working
<1>2. Working(d) => /\ From(d) \in Paths \ PathsOf(c)
                    /\ call[d].op.kind = "mv" => To(d) \in Paths \ PathsOf(c)
  BY WorkersOps, NoSharedPath DEF LostInv
<1>3. call[d].pc \in {"checking", "copied"} => Working(d)
  BY DEF Working, HasRead
<1> QED
  BY <1>1, <1>2, <1>3 DEF LostInv, ShapeInv, OwnTextInv, CopyInv

\* A text in a file of a call, where the call either ends or has the text itself, lives there.
LEMMA LivesThere ==
  ASSUME LostInv, NEW c \in WriteCalls, Working(c), NEW p \in PathsOf(c), NEW e,
         \A d \in WriteCalls : d # c => call'[d] = call[d],
         e \in TextIn(file'[p]),
         Working(c)' => p = From(c)' /\ e \in TextIn(call'[c].text)
  PROVE  LivesAt(e, p)'
<1>1. ASSUME NEW d \in WriteCalls, d # c, Working(d)', p \in PathsOf(d)' PROVE FALSE
  <2>1. Working(d) /\ p \in PathsOf(d)
    BY <1>1 DEF Working, PathsOf
  <2> QED
    BY <1>1, <2>1, NoSharedPath DEF LostInv
<1> QED
  BY <1>1 DEF LivesAt

\* No text is lost by a step of a call that keeps those its own files held.
LEMMA TextsAfter ==
  ASSUME LostInv, NEW c \in WriteCalls, Working(c), replaced \subseteq replaced', spoiled \subseteq spoiled',
         \A p \in Paths \ PathsOf(c) : file'[p] = file[p],
         \A d \in WriteCalls : d # c => call'[d] = call[d],
         ~Working(c)' \/ call'[c].op = call[c].op,
         \A e \in Kept' : e \in acked \/ \E p \in Paths : LivesAt(e, p)',
         \A e \in Kept' :
           e \in acked /\ e \in TextIn(call[c].text) /\ (LivesAt(e, From(c)) \/ HeldBy(e, c))
             => (\E p \in Paths : LivesAt(e, p)') \/ (\E d \in WriteCalls : HeldBy(e, d)')
  PROVE  TextsInv'
<1> SUFFICES ASSUME NEW e \in Kept'
             PROVE  (\E p \in Paths : LivesAt(e, p)') \/ (\E d \in WriteCalls : HeldBy(e, d)')
  BY DEF TextsInv
<1>k. e \in acked => e \in Kept
  BY DEF Kept
<1>1. CASE e \in acked /\ \E p \in Paths : LivesAt(e, p)
  <2>1. PICK p \in Paths : LivesAt(e, p)
    BY <1>1
  <2>2. CASE p \in PathsOf(c)
    <3>1. p = From(c) /\ e \in TextIn(call[c].text)
      BY <2>1, <2>2 DEF LivesAt
    <3> QED
      BY <1>1, <2>1, <3>1
  <2>3. CASE p \notin PathsOf(c)
    <3>1. file'[p] = file[p]
      BY <2>3
    <3>2. \A d \in WriteCalls : Working(d)' /\ p \in PathsOf(d)' => p = From(d)' /\ e \in TextIn(call'[d].text)
      BY <2>1, <2>3 DEF LivesAt, Working, PathsOf, From
    <3>3. LivesAt(e, p)'
      BY <2>1, <3>1, <3>2 DEF LivesAt
    <3> QED
      BY <3>3
  <2> QED
    BY <2>2, <2>3
<1>2. CASE e \in acked /\ \E d \in WriteCalls : HeldBy(e, d)
  <2>1. PICK d \in WriteCalls : HeldBy(e, d)
    BY <1>2
  <2>2. CASE d = c
    BY <1>2, <2>1, <2>2 DEF HeldBy
  <2>3. CASE d # c
    BY <2>1, <2>3 DEF HeldBy
  <2> QED
    BY <2>2, <2>3
<1> QED
  BY <1>k, <1>1, <1>2 DEF LostInv, TextsInv

LEMMA LookKeepsTexts ==
  ASSUME LostInv, WorkTypeOK', LocksInv', NEW c \in WriteCalls, LookAt(c)
  PROVE  (ShapeInv /\ OwnTextInv /\ CopyInv /\ TextsInv)'
<1>1. /\ call[c].pc = "locking" /\ Allowed(c) /\ UNCHANGED <<file, acked, replaced, spoiled>>
      /\ call'[c].op = call[c].op /\ call'[c].pc = "looked" /\ call'[c].text = file[From(c)]
      /\ \A d \in WriteCalls : d # c => call'[d] = call[d]
  BY DEF LookAt, Ready, LostInv, WorkTypeOK, history
<1>2. Working(c)' /\ From(c)' = From(c) /\ To(c)' = To(c)
  BY <1>1 DEF Working, HasRead, From, To
<1>3. call[c].op.kind = "mv" => file[From(c)] # NoFile /\ file[To(c)] = NoFile
  BY <1>1 DEF Allowed
<1>4. ShapeInv'
  BY <1>1, <1>2, <1>3 DEF LostInv, ShapeInv, Working, Writes, From, To
<1>5. (OwnTextInv /\ CopyInv)'
  BY <1>1 DEF LostInv, OwnTextInv, CopyInv, From, To
<1>6. ASSUME NEW e, NEW p \in Paths, LivesAt(e, p) PROVE LivesAt(e, p)'
  <2>1. e \in TextIn(file[p])
    BY <1>6 DEF LivesAt
  <2>2. ASSUME p \in PathsOf(c)' PROVE p = From(c)' /\ e \in TextIn(call'[c].text)
    <3>1. p = From(c) \/ (call[c].op.kind = "mv" /\ p = To(c))
      <4>1. call[c].op \in Ops /\ p \in PathsOf(c)
        BY <1>1, <2>2 DEF LostInv, WorkTypeOK, Busy, PathsOf
      <4> QED
        BY <4>1, OnePath
    <3>2. ~(call[c].op.kind = "mv" /\ p = To(c))
      BY <1>3, <2>1 DEF TextIn
    <3> QED
      BY <1>1, <1>2, <2>1, <3>1, <3>2
  <2>3. \A d \in WriteCalls : Working(d)' /\ p \in PathsOf(d)' => p = From(d)' /\ e \in TextIn(call'[d].text)
    BY <1>1, <1>6, <2>2 DEF LivesAt, Working, PathsOf, From
  <2> QED
    BY <1>1, <2>1, <2>3 DEF LivesAt
<1>7. \A e : \A d \in WriteCalls : HeldBy(e, d) => HeldBy(e, d)'
  BY <1>1 DEF HeldBy
<1>8. TextsInv'
  BY <1>1, <1>6, <1>7 DEF LostInv, TextsInv, Kept
<1> QED
  BY <1>4, <1>5, <1>8

LEMMA BackupKeepsTexts ==
  ASSUME LostInv, NEW c \in WriteCalls, BackupIfNeeded(c)
  PROVE  (ShapeInv /\ OwnTextInv /\ CopyInv /\ TextsInv)'
<1>1. /\ call[c].pc = "looked" /\ UNCHANGED <<file, acked, replaced, spoiled>>
      /\ call'[c].op = call[c].op /\ call'[c].text = call[c].text /\ call'[c].pc \in {"looked", "safe"}
      /\ \A d \in WriteCalls : d # c => call'[d] = call[d]
  BY BackupMoves DEF BackupIfNeeded, BackedUp, LostInv, history
<1>2. (ShapeInv /\ OwnTextInv /\ CopyInv)'
  BY <1>1 DEF LostInv, ShapeInv, OwnTextInv, CopyInv, Writes, Working, HasRead, From, To
<1>3. \A e, p : LivesAt(e, p) => LivesAt(e, p)'
  BY <1>1 DEF LivesAt, Working, HasRead, PathsOf, From
<1>4. \A e : \A d \in WriteCalls : HeldBy(e, d) => HeldBy(e, d)'
  BY <1>1 DEF HeldBy
<1>5. TextsInv'
  BY <1>1, <1>3, <1>4 DEF LostInv, TextsInv, Kept
<1> QED
  BY <1>2, <1>5

LEMMA ApplyKeepsTexts ==
  ASSUME LostInv, NEW c \in WriteCalls, ApplyText(c)
  PROVE  (ShapeInv /\ OwnTextInv /\ CopyInv /\ TextsInv)'
<1>1. /\ call[c].pc = "safe" /\ Writes(c) /\ UNCHANGED <<acked, replaced, spoiled>>
      /\ file' = [file EXCEPT ![From(c)] = NewText(c)]
      /\ call'[c].op = call[c].op /\ call'[c].text = call[c].text /\ call'[c].pc = "checking"
      /\ \A d \in WriteCalls : d # c => call'[d] = call[d]
  BY StepLeaves DEF ApplyText, LostInv, history
<1>2. Working(c) /\ Working(c)' /\ From(c)' = From(c) /\ call[c].op.kind # "mv"
  BY <1>1 DEF Working, HasRead, From, Writes
<1>3. From(c) \in Paths /\ From(c) \in PathsOf(c)
  BY <1>2, WorkersOps DEF LostInv
<1>4. file'[From(c)] = NewText(c) /\ \A p \in Paths \ PathsOf(c) : file'[p] = file[p]
  BY <1>1, <1>3 DEF LostInv, WorkTypeOK
<1>5. c \in TextIn(file'[From(c)])
        /\ (call[c].op.kind # "write" => TextIn(call[c].text) \subseteq TextIn(file'[From(c)]))
  BY <1>4, WrittenText DEF LostInv
<1>6. (ShapeInv /\ OwnTextInv /\ CopyInv)'
  BY <1>1, <1>2, <1>4, <1>5, OthersKnow DEF ShapeInv, OwnTextInv, CopyInv, Writes
<1>7. ASSUME NEW e \in acked, e \in TextIn(call[c].text)
      PROVE  (\E p \in Paths : LivesAt(e, p)') \/ (\E d \in WriteCalls : HeldBy(e, d)')
  <2>1. CASE call[c].op.kind = "write"
    BY <1>1, <1>7, <2>1 DEF HeldBy
  <2>2. CASE call[c].op.kind # "write"
    BY <1>1, <1>2, <1>3, <1>5, <1>7, <2>2, LivesThere
  <2> QED
    BY <2>1, <2>2
<1>8. TextsInv'
  BY <1>1, <1>2, <1>4, <1>7, TextsAfter DEF Kept
<1> QED
  BY <1>6, <1>8

LEMMA KeepKeepsTexts ==
  ASSUME LostInv, NEW c \in WriteCalls, KeepText(c)
  PROVE  (ShapeInv /\ OwnTextInv /\ CopyInv /\ TextsInv)'
<1>1. /\ call[c].pc = "checking" /\ UNCHANGED file /\ acked' = acked \cup {c}
      /\ replaced \subseteq replaced' /\ UNCHANGED spoiled
      /\ call[c].op.kind = "write" => TextIn(call[c].text) \subseteq replaced'
      /\ call'[c].pc = "leaving" /\ \A d \in WriteCalls : d # c => call'[d] = call[d]
  BY AnswerLeaves DEF KeepText, LostInv
<1>2. Working(c) /\ ~Working(c)'
  BY <1>1 DEF Working, HasRead
<1>3. From(c) \in Paths /\ From(c) \in PathsOf(c)
  BY <1>2, WorkersOps DEF LostInv
<1>4. (ShapeInv /\ OwnTextInv /\ CopyInv)'
  BY <1>1, <1>2, OthersKnow DEF ShapeInv, OwnTextInv, CopyInv
<1>5. ASSUME c \notin replaced' PROVE \E p \in Paths : LivesAt(c, p)'
  <2>1. c \in TextIn(file'[From(c)])
    BY <1>1, <1>5 DEF LostInv, OwnTextInv
  <2> QED
    BY <1>1, <1>2, <1>3, <2>1, LivesThere
<1>6. \A e \in Kept' : e \in acked \/ \E p \in Paths : LivesAt(e, p)'
  BY <1>1, <1>5 DEF Kept
<1>7. ASSUME NEW e \in Kept', e \in TextIn(call[c].text), LivesAt(e, From(c)) \/ HeldBy(e, c)
      PROVE  \E p \in Paths : LivesAt(e, p)'
  <2>1. LivesAt(e, From(c))
    BY <1>1, <1>7 DEF HeldBy, Kept
  <2>2. e \in TextIn(file'[From(c)])
    BY <1>1, <2>1 DEF LivesAt
  <2> QED
    BY <1>1, <1>2, <1>3, <2>2, LivesThere
<1>8. TextsInv'
  BY <1>1, <1>2, <1>6, <1>7, TextsAfter
<1> QED
  BY <1>4, <1>8

LEMMA PutBackKeepsTexts ==
  ASSUME LostInv, NEW c \in WriteCalls, PutBack(c)
  PROVE  (ShapeInv /\ OwnTextInv /\ CopyInv /\ TextsInv)'
<1>1. /\ call[c].pc = "checking" /\ UNCHANGED <<acked, replaced, spoiled>>
      /\ file' = [file EXCEPT ![From(c)] = call[c].text]
      /\ call'[c].pc = "leaving" /\ \A d \in WriteCalls : d # c => call'[d] = call[d]
  BY AnswerLeaves DEF PutBack, LostInv, history
<1>2. Working(c) /\ ~Working(c)'
  BY <1>1 DEF Working, HasRead
<1>3. From(c) \in Paths /\ From(c) \in PathsOf(c)
  BY <1>2, WorkersOps DEF LostInv
<1>4. file'[From(c)] = call[c].text /\ \A p \in Paths \ PathsOf(c) : file'[p] = file[p]
  BY <1>1, <1>3 DEF LostInv, WorkTypeOK
<1>5. (ShapeInv /\ OwnTextInv /\ CopyInv)'
  BY <1>1, <1>2, <1>4, OthersKnow DEF ShapeInv, OwnTextInv, CopyInv
<1>6. ASSUME NEW e \in acked, e \in TextIn(call[c].text) PROVE \E p \in Paths : LivesAt(e, p)'
  BY <1>1, <1>2, <1>3, <1>4, <1>6, LivesThere
<1>7. TextsInv'
  BY <1>1, <1>2, <1>4, <1>6, TextsAfter DEF Kept
<1> QED
  BY <1>5, <1>7

\* What is left of a file that is cut off, and of the texts that were acknowledged in it.
LEMMA TornTexts ==
  ASSUME WorkTypeOK, NEW p \in Paths, NEW new \in Text, NEW old, TornWrite(p, new, old)
  PROVE  /\ \A q \in Paths : q # p => file'[q] = file[q]
         /\ spoiled \subseteq spoiled'
         /\ \A e \in Kept' : e \in old => e \in TextIn(file'[p])
<1>1. PICK rest \in SUBSET new : /\ file' = [file EXCEPT ![p] = rest]
                                 /\ spoiled' = spoiled \cup (acked' \cap (old \ rest))
  BY DEF TornWrite
<1>2. rest # NoFile /\ file'[p] = rest
  BY <1>1, WorkTreeNoFile DEF Text, WorkTypeOK
<1>3. \A q \in Paths : q # p => file'[q] = file[q]
  BY <1>1 DEF WorkTypeOK
<1>4. \A e \in Kept' : e \in old => e \in rest
  BY <1>1 DEF Kept
<1> QED
  BY <1>1, <1>2, <1>3, <1>4 DEF TextIn

LEMMA WriteFailsKeepsTexts ==
  ASSUME LostInv, NEW c \in WriteCalls, WriteFails(c)
  PROVE  (ShapeInv /\ OwnTextInv /\ CopyInv /\ TextsInv)'
<1>1. /\ call[c].pc = "safe" /\ UNCHANGED <<acked, replaced>>
      /\ call'[c].pc = "leaving" /\ \A d \in WriteCalls : d # c => call'[d] = call[d]
  BY AnswerLeaves DEF WriteFails, LostInv
<1>2. Working(c) /\ ~Working(c)'
  BY <1>1 DEF Working, HasRead
<1>3. From(c) \in Paths /\ From(c) \in PathsOf(c) /\ NewText(c) \in Text /\ TextIn(call[c].text) \in Text
  BY <1>2, WorkersOps, TextInType DEF LostInv
<1>4. /\ \A p \in Paths \ PathsOf(c) : file'[p] = file[p]
      /\ spoiled \subseteq spoiled'
      /\ \A e \in Kept' : e \in TextIn(file[From(c)]) => e \in TextIn(file'[From(c)])
  <2>1. CASE TornWrite(From(c), NewText(c), TextIn(file[From(c)]))
    BY <1>3, <2>1, TornTexts DEF LostInv
  <2>2. CASE call[c].op.kind = "mv" /\ TornWrite(To(c), TextIn(call[c].text), TextIn(file[To(c)]))
    <3>1. To(c) \in Paths /\ To(c) \in PathsOf(c) /\ From(c) # To(c)
      BY <1>2, <2>2, WorkersOps DEF LostInv, ShapeInv
    <3> QED
      BY <1>3, <2>2, <3>1, TornTexts DEF LostInv
  <2> QED
    BY <2>1, <2>2 DEF WriteFails
<1>5. (ShapeInv /\ OwnTextInv /\ CopyInv)'
  BY <1>1, <1>2, <1>4, OthersKnow DEF ShapeInv, OwnTextInv, CopyInv
<1>6. ASSUME NEW e \in Kept', LivesAt(e, From(c)) \/ HeldBy(e, c) PROVE \E p \in Paths : LivesAt(e, p)'
  <2>1. e \in TextIn(file'[From(c)])
    BY <1>1, <1>4, <1>6 DEF LivesAt, HeldBy
  <2> QED
    BY <1>1, <1>2, <1>3, <2>1, LivesThere
<1>7. TextsInv'
  BY <1>1, <1>2, <1>4, <1>6, TextsAfter DEF Kept
<1> QED
  BY <1>5, <1>7

LEMMA PutBackFailsKeepsTexts ==
  ASSUME LostInv, NEW c \in WriteCalls, PutBackFails(c)
  PROVE  (ShapeInv /\ OwnTextInv /\ CopyInv /\ TextsInv)'
<1>1. /\ call[c].pc = "checking" /\ acked' = acked \cup {c} /\ UNCHANGED replaced
      /\ TornWrite(From(c), TextIn(call[c].text), TextIn(call[c].text) \cup TextIn(file[From(c)]))
      /\ call'[c].pc = "leaving" /\ \A d \in WriteCalls : d # c => call'[d] = call[d]
  BY AnswerLeaves DEF PutBackFails, LostInv
<1>2. Working(c) /\ ~Working(c)'
  BY <1>1 DEF Working, HasRead
<1>3. From(c) \in Paths /\ From(c) \in PathsOf(c) /\ TextIn(call[c].text) \in Text
  BY <1>2, WorkersOps, TextInType DEF LostInv
<1>4. /\ \A p \in Paths \ PathsOf(c) : file'[p] = file[p]
      /\ spoiled \subseteq spoiled'
      /\ \A e \in Kept' : e \in TextIn(call[c].text) \cup TextIn(file[From(c)]) => e \in TextIn(file'[From(c)])
  BY <1>1, <1>3, TornTexts DEF LostInv
<1>5. (ShapeInv /\ OwnTextInv /\ CopyInv)'
  BY <1>1, <1>2, <1>4, OthersKnow DEF ShapeInv, OwnTextInv, CopyInv
<1>6. ASSUME NEW e \in Kept', e \in TextIn(call[c].text) \cup TextIn(file[From(c)])
      PROVE  \E p \in Paths : LivesAt(e, p)'
  BY <1>1, <1>2, <1>3, <1>4, <1>6, LivesThere
<1>7. \A e \in Kept' : e \in acked \/ \E p \in Paths : LivesAt(e, p)'
  <2>1. c \in replaced \/ c \in TextIn(file[From(c)])
    BY <1>1 DEF LostInv, OwnTextInv
  <2> QED
    BY <1>1, <1>6, <2>1 DEF Kept
<1>8. TextsInv'
  BY <1>1, <1>2, <1>4, <1>6, <1>7, TextsAfter
<1> QED
  BY <1>5, <1>8

LEMMA DeleteKeepsTexts ==
  ASSUME LostInv, NEW c \in WriteCalls, Delete(c)
  PROVE  (ShapeInv /\ OwnTextInv /\ CopyInv /\ TextsInv)'
<1>1. /\ call[c].pc = "safe" /\ UNCHANGED <<acked, spoiled>> /\ replaced \subseteq replaced'
      /\ TextIn(call[c].text) \subseteq replaced' /\ file' = [file EXCEPT ![From(c)] = NoFile]
      /\ call'[c].pc = "leaving" /\ \A d \in WriteCalls : d # c => call'[d] = call[d]
  BY AnswerLeaves DEF Delete, LostInv
<1>2. Working(c) /\ ~Working(c)'
  BY <1>1 DEF Working, HasRead
<1>3. \A p \in Paths \ PathsOf(c) : file'[p] = file[p]
  BY <1>1, <1>2, WorkersOps DEF LostInv, WorkTypeOK
<1>4. (ShapeInv /\ OwnTextInv /\ CopyInv)'
  BY <1>1, <1>2, <1>3, OthersKnow DEF ShapeInv, OwnTextInv, CopyInv
<1>5. TextsInv'
  BY <1>1, <1>2, <1>3, TextsAfter DEF Kept
<1> QED
  BY <1>4, <1>5

LEMMA MoveKeepsTexts ==
  ASSUME LostInv, NEW c \in WriteCalls, Rename(c) \/ RemoveSource(c)
  PROVE  (ShapeInv /\ OwnTextInv /\ CopyInv /\ TextsInv)'
<1>1. /\ call[c].pc \in {"safe", "copied"} /\ call[c].op.kind = "mv" /\ UNCHANGED <<acked, replaced, spoiled>>
      /\ call'[c].pc = "leaving" /\ \A d \in WriteCalls : d # c => call'[d] = call[d]
  BY AnswerLeaves DEF Rename, RemoveSource, LostInv, ShapeInv, history
<1>2. Working(c) /\ ~Working(c)' /\ From(c) # To(c)
  BY <1>1 DEF Working, HasRead, LostInv, ShapeInv
<1>3. {From(c), To(c)} \subseteq Paths /\ {From(c), To(c)} \subseteq PathsOf(c)
  BY <1>1, <1>2, WorkersOps DEF LostInv
<1>4. \A p \in Paths \ PathsOf(c) : file'[p] = file[p]
  BY <1>3 DEF Rename, RemoveSource, LostInv, WorkTypeOK
<1>5. (ShapeInv /\ OwnTextInv /\ CopyInv)'
  BY <1>1, <1>2, <1>4, OthersKnow DEF ShapeInv, OwnTextInv, CopyInv
<1>6. ASSUME NEW e \in Kept', e \in TextIn(call[c].text), LivesAt(e, From(c)) \/ HeldBy(e, c)
      PROVE  \E p \in Paths : LivesAt(e, p)'
  <2>1. e \in TextIn(file[From(c)])
    BY <1>1, <1>6 DEF HeldBy, LivesAt
  <2>2. e \in TextIn(file'[To(c)])
    <3>1. CASE Rename(c)
      BY <1>2, <1>3, <2>1, <3>1 DEF Rename, LostInv, WorkTypeOK
    <3>2. CASE RemoveSource(c)
      BY <1>1, <1>2, <1>3, <1>6, <3>2 DEF RemoveSource, LostInv, WorkTypeOK, CopyInv, Kept
    <3> QED
      BY <3>1, <3>2
  <2> QED
    BY <1>1, <1>2, <1>3, <2>2, LivesThere
<1>7. TextsInv'
  BY <1>1, <1>2, <1>4, <1>6, TextsAfter DEF Kept
<1> QED
  BY <1>5, <1>7

LEMMA CopyKeepsTexts ==
  ASSUME LostInv, NEW c \in WriteCalls, CopyFile(c) \/ DropCopy(c)
  PROVE  (ShapeInv /\ OwnTextInv /\ CopyInv /\ TextsInv)'
<1>1. /\ call[c].pc \in {"safe", "copied"} /\ call[c].op.kind = "mv" /\ UNCHANGED <<acked, replaced, spoiled>>
      /\ \A d \in WriteCalls : d # c => call'[d] = call[d]
      /\ \/ call'[c].pc = "leaving"
         \/ /\ call'[c].op = call[c].op /\ call'[c].text = call[c].text /\ call'[c].pc = "copied"
            /\ file' = [file EXCEPT ![To(c)] = call[c].text]
  BY AnswerLeaves, StepLeaves DEF CopyFile, DropCopy, LostInv, ShapeInv, history
<1>2. Working(c) /\ From(c) # To(c)
  BY <1>1 DEF Working, HasRead, LostInv, ShapeInv
<1>3. {From(c), To(c)} \subseteq Paths /\ {From(c), To(c)} \subseteq PathsOf(c)
  BY <1>1, <1>2, WorkersOps DEF LostInv
<1>4. file'[From(c)] = file[From(c)] /\ \A p \in Paths \ PathsOf(c) : file'[p] = file[p]
  BY <1>2, <1>3 DEF CopyFile, DropCopy, LostInv, WorkTypeOK
<1>5. \/ ~Working(c)'
      \/ /\ Working(c)' /\ call'[c].op = call[c].op /\ From(c)' = From(c) /\ To(c)' = To(c)
         /\ call'[c].pc = "copied" /\ call'[c].text = call[c].text /\ file'[To(c)] = call[c].text
  BY <1>1, <1>3 DEF Working, HasRead, From, To, LostInv, WorkTypeOK
<1>6. (ShapeInv /\ OwnTextInv /\ CopyInv)'
  <2>1. call'[c].pc # "checking" /\ (call'[c].pc = "copied" => Working(c)')
    BY <1>1 DEF Working, HasRead
  <2>2. /\ call'[c].pc = "copied" => call'[c].op.kind = "mv"
        /\ Working(c)' => From(c)' # To(c)'
        /\ call'[c].pc = "copied" => file'[To(c)'] = call'[c].text
    BY <1>1, <1>2, <1>5, <2>1
  <2> QED
    BY <1>1, <1>2, <1>4, <2>1, <2>2, OthersKnow DEF ShapeInv, OwnTextInv, CopyInv
<1>7. ASSUME NEW e \in Kept', e \in TextIn(call[c].text), LivesAt(e, From(c)) \/ HeldBy(e, c)
      PROVE  \E p \in Paths : LivesAt(e, p)'
  <2>1. e \in TextIn(file'[From(c)])
    BY <1>1, <1>4, <1>7 DEF HeldBy, LivesAt
  <2>2. Working(c)' => From(c) = From(c)' /\ e \in TextIn(call'[c].text)
    BY <1>5, <1>7
  <2> QED
    BY <1>1, <1>2, <1>3, <2>1, <2>2, LivesThere
<1>8. TextsInv'
  BY <1>1, <1>2, <1>4, <1>5, <1>7, TextsAfter DEF Kept
<1> QED
  BY <1>6, <1>8

LEMMA RewindKeepsTexts ==
  ASSUME LostInv, NEW p \in Paths, RewindFile(p)
  PROVE  (ShapeInv /\ OwnTextInv /\ CopyInv /\ TextsInv)'
<1>1. /\ UNCHANGED <<call, acked, spoiled>> /\ replaced \subseteq replaced' /\ TextIn(file[p]) \subseteq replaced'
      /\ \A c \in WriteCalls : Busy(c) /\ p \in PathsOf(c) => c \in replaced'
      /\ \A q \in Paths : q # p => file'[q] = file[q]
  BY DEF RewindFile, calls, LostInv, WorkTypeOK
<1>2. ShapeInv'
  BY <1>1 DEF LostInv, ShapeInv, Writes, Working, From, To
<1>3. ASSUME NEW c \in WriteCalls, call[c].pc = "checking" PROVE c \in replaced' \/ c \in TextIn(file'[From(c)])
  <2>1. Working(c) /\ Busy(c)
    BY <1>3 DEF Working, HasRead, Busy
  <2> QED
    BY <1>1, <1>3, <2>1, WorkersOps DEF LostInv, OwnTextInv
<1>4. ASSUME NEW c \in WriteCalls, call[c].pc = "copied"
      PROVE  file'[To(c)] = call[c].text \/ TextIn(call[c].text) \subseteq replaced'
  <2>1. Working(c) /\ call[c].op.kind = "mv"
    BY <1>4 DEF Working, HasRead, LostInv, ShapeInv
  <2> QED
    BY <1>1, <1>4, <2>1, WorkersOps DEF LostInv, CopyInv
<1>5. (OwnTextInv /\ CopyInv)'
  BY <1>1, <1>3, <1>4 DEF OwnTextInv, CopyInv, From, To
<1>6. ASSUME NEW e \in Kept', NEW q \in Paths, LivesAt(e, q) PROVE LivesAt(e, q)'
  BY <1>1, <1>6 DEF LivesAt, Working, PathsOf, From, Kept
<1>7. \A e : \A d \in WriteCalls : HeldBy(e, d) => HeldBy(e, d)'
  BY <1>1 DEF HeldBy
<1>8. TextsInv'
  BY <1>1, <1>6, <1>7 DEF LostInv, TextsInv, Kept
<1> QED
  BY <1>2, <1>5, <1>8

LEMMA LostStep == LostInv /\ [WorkNext]_workVars => LostInv'
<1> SUFFICES ASSUME LostInv, [WorkNext]_workVars PROVE LostInv'
  OBVIOUS
<1>t. WorkTypeOK /\ WorkTypeOK' /\ LocksInv'
  BY WorkTypeStep, LocksStep DEF LostInv
<1> DEFINE Rest == ShapeInv /\ OwnTextInv /\ CopyInv /\ TextsInv
<1>1. ASSUME NEW c \in WriteCalls, BeginCall(c) \/ TakeLock(c) \/ Refuse(c) \/ ToolFails(c) \/ Unlock(c) PROVE Rest'
  <2>1. UNCHANGED <<file, acked, replaced, spoiled>>
    BY <1>1 DEF BeginCall, TakeLock, Refuse, ToolFails, Unlock, history
  <2>2. call[c].pc # "checking" /\ call'[c].pc \in {"locking", "leaving", "done"}
          /\ \A d \in WriteCalls : d # c => call'[d] = call[d]
    <3>1. CASE BeginCall(c)
      BY <1>t, <3>1 DEF BeginCall, WorkTypeOK, NotCalled
    <3>2. CASE TakeLock(c)
      BY <1>t, <3>2 DEF TakeLock, WorkTypeOK
    <3>3. CASE Refuse(c) \/ ToolFails(c)
      BY <1>t, <3>3, AnswerLeaves DEF Refuse, Ready, ToolFails
    <3>4. CASE Unlock(c)
      BY <1>t, <3>4, StepLeaves DEF Unlock
    <3> QED
      BY <1>1, <3>1, <3>2, <3>3, <3>4
  <2> QED
    BY <2>1, <2>2, QuietStep DEF Working, HasRead
<1>2. ASSUME NEW c \in WriteCalls, LookAt(c) \/ BackupIfNeeded(c) \/ ApplyText(c) \/ KeepText(c) PROVE Rest'
  BY <1>2, <1>t, LookKeepsTexts, BackupKeepsTexts, ApplyKeepsTexts, KeepKeepsTexts
<1>3. ASSUME NEW c \in WriteCalls,
             \/ WriteFails(c) \/ PutBack(c) \/ PutBackFails(c) \/ Delete(c) \/ Rename(c)
             \/ CopyFile(c) \/ RemoveSource(c) \/ DropCopy(c)
      PROVE  Rest'
  BY <1>3, WriteFailsKeepsTexts, PutBackKeepsTexts, PutBackFailsKeepsTexts, DeleteKeepsTexts, MoveKeepsTexts, CopyKeepsTexts
<1>4. ASSUME NEW p \in Paths, RewindFile(p) PROVE Rest'
  BY <1>4, RewindKeepsTexts
<1>5. ASSUME SnapshotPaths \/ BeginRewind \/ RewindFails \/ UNCHANGED workVars PROVE Rest'
  <2>1. UNCHANGED <<file, acked, replaced, spoiled, call>>
    BY <1>5 DEF SnapshotPaths, BeginRewind, RewindFails, workVars, calls, history
  <2> QED
    BY <2>1, QuietStep
<1>6. Rest'
  BY <1>1, <1>2, <1>3, <1>4, <1>5 DEF WorkNext, CallSteps
<1> QED
  BY <1>6, <1>t DEF LostInv

\* No acknowledged edit is lost between racing tools: only a whole-file write, a delete, a
\* rewind or a write that fails half way takes a text away, for any number of calls, paths
\* and rewinds.
THEOREM AcknowledgedEditsStay == WorkSpec => []NoEditLost
<1>1. WorkInit => LostInv
  BY LostInit
<1>2. LostInv /\ [WorkNext]_workVars => LostInv'
  BY LostStep
<1>3. LostInv => NoEditLost
  <2> SUFFICES ASSUME LostInv, NEW e \in Kept
               PROVE  \/ \E p \in Paths : e \in TextIn(file[p])
                      \/ \E c \in WriteCalls : Busy(c) /\ e \in TextIn(call[c].text)
    BY DEF NoEditLost, Kept
  <2>1. ASSUME NEW p \in Paths, LivesAt(e, p) PROVE e \in TextIn(file[p])
    BY <2>1 DEF LivesAt
  <2>2. ASSUME NEW c \in WriteCalls, HeldBy(e, c) PROVE Busy(c) /\ e \in TextIn(call[c].text)
    BY <2>2 DEF HeldBy, Busy
  <2> QED
    BY <2>1, <2>2 DEF LostInv, TextsInv
<1> QED
  BY <1>1, <1>2, <1>3, PTL DEF WorkSpec
=============================================================================
