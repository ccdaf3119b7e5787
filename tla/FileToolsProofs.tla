---------------------------- MODULE FileToolsProofs ----------------------------
(***************************************************************************)
(* Proofs about FileTools, for any number of paths, calls and runs: the    *)
(* variables keep their types and, as long as no thread that writes        *)
(* outlives its call, a path never holds a file half written, what the     *)
(* journal says of a replaced file is true, and no content is lost without *)
(* trace.                                                                  *)
(***************************************************************************)
EXTENDS FileTools, TLAPS

NoLateWriter == \A c \in Late : "write" \notin ToolsOf[c]

Writing == {"open", "fill", "swap"}

\* The lock of the database keeps writers apart.
LockInv ==
  /\ \A c \in Calls : pc[c] \in Writing => req[c].tool = "write"
  /\ \A c \in Calls : pc[c] \in Writing \cup {"commit"} => holder = c
  /\ \A c \in Calls : req[c].tool \in ToolsOf[c]

\* The temporary files are files of their own, and no two paths share one.
TmpInv ==
  /\ \A p, q \in Paths : tmp[p] # None => files[q] # tmp[p]
  /\ \A p, q \in Paths : tmp[p] # None /\ tmp[p] = tmp[q] => p = q

\* A call's own inode is nowhere before the call has opened it.
FreshInv ==
  \A c \in Calls :
    pc[c] \in {"idle", "journal", "open"} => \A p \in Paths : files[p] # c /\ tmp[p] # c

\* What a write has open is the temporary file of its path, full before the swap.
OpenInv ==
  \A c \in Calls :
    /\ pc[c] \in {"fill", "swap"} =>
         /\ handle[c] \in Inodes
         /\ tmp[req[c].path] = handle[c]
    /\ pc[c] = "swap" => data[handle[c]] = c

IInv == TypeOK /\ LockInv /\ TmpInv /\ FreshInv /\ OpenInv /\ WritesAreWhole

-----------------------------------------------------------------------------
(* Types *)

\* Every type a request or a place on the disk can have, spelled out.
LEMMA Shapes ==
  ASSUME TypeOK
  PROVE  /\ \A c \in Calls : req[c].path \in Paths /\ req[c].src \in Paths
         /\ \A p \in Paths : files[p] \in Inodes \cup {None}
         /\ \A p \in Paths : files[p] # None => files[p] \in Inodes
         /\ \A p \in Paths : ContentAt(p) \in Contents \cup {Empty, None}
         /\ None \notin Inodes /\ Empty \notin Contents
  BY FileToolsAssumption DEF TypeOK, Requests, ContentAt, Inodes, Contents, None, Empty

\* The initial states have the right types.
LEMMA InitType == Init => TypeOK
  BY FileToolsAssumption DEF Init, TypeOK, Inodes, Contents, Requests, Snapshots, Nothing

\* Sending a path to the trash keeps the types of what it changes.
LEMMA TrashType ==
  ASSUME TypeOK, NEW c \in Calls, NEW to \in {"check", "commit"}, ToTrash(c, to)
  PROVE  /\ files' \in [Paths -> Inodes \cup {None}]
         /\ trash' \in [Calls -> Inodes \cup {None}]
         /\ pc' \in [Calls -> {"idle", "journal", "failed", "commit", "done", "outlived", "lost"} \cup AtWork]
         /\ replaced' \in [Calls -> Contents \cup {Empty, None}]
  BY Shapes DEF TypeOK, ToTrash, After, AtWork

\* Every step keeps the types.
LEMMA StepType == TypeOK /\ [Next]_vars => TypeOK'
<1> SUFFICES ASSUME TypeOK, [Next]_vars PROVE TypeOK'
  OBVIOUS
<1> USE DEF disk
<1>0. CASE UNCHANGED vars
  BY <1>0 DEF TypeOK, vars
<1>1. ASSUME NEW c \in Calls, DryRun(c) PROVE TypeOK'
  <2>1. Snapshot(req[c]) \in Snapshots
    BY Shapes DEF Snapshot, Snapshots, TypeOK, Requests
  <2> QED
    BY <1>1, <2>1 DEF DryRun, Goto, TypeOK
<1>2. ASSUME NEW c \in Calls, Blocked(c) PROVE TypeOK'
  BY <1>2 DEF Blocked, TypeOK
<1>3. ASSUME NEW c \in Calls, RecordBefore(c) PROVE TypeOK'
  BY <1>3 DEF RecordBefore, Goto, TypeOK, AtWork
<1>4. ASSUME NEW c \in Calls, OpenTmp(c) PROVE TypeOK'
  BY <1>4, Shapes DEF OpenTmp, Goto, TypeOK, AtWork, Inodes
<1>5. ASSUME NEW c \in Calls, FillTmp(c) PROVE TypeOK'
  BY <1>5 DEF FillTmp, Goto, TypeOK, AtWork, Contents
<1>6. ASSUME NEW c \in Calls, SwapTmp(c) PROVE TypeOK'
  BY <1>6, Shapes DEF SwapTmp, Goto, After, TypeOK, AtWork
<1>7. ASSUME NEW c \in Calls, LookDst(c) PROVE TypeOK'
  BY <1>7 DEF LookDst, Goto, TypeOK, AtWork
<1>8. ASSUME NEW c \in Calls, TrashDst(c) PROVE TypeOK'
  BY <1>8, TrashType DEF TrashDst, TypeOK
<1>9. ASSUME NEW c \in Calls, CheckMove(c) PROVE TypeOK'
  BY <1>9 DEF CheckMove, Goto, After, TypeOK, AtWork
<1>10. ASSUME NEW c \in Calls, RenameSrc(c) PROVE TypeOK'
  BY <1>10, Shapes DEF RenameSrc, Goto, After, TypeOK, AtWork
<1>11. ASSUME NEW c \in Calls, Delete(c) PROVE TypeOK'
  BY <1>11, TrashType DEF Delete, TypeOK
<1>12. ASSUME NEW c \in Calls, RunFails(c) PROVE TypeOK'
  BY <1>12, Shapes DEF RunFails, After, TypeOK, AtWork
<1>13. ASSUME NEW c \in Calls, Abandon(c) PROVE TypeOK'
  BY <1>13 DEF Abandon, TypeOK
<1>14. ASSUME NEW c \in Calls, Commit(c) PROVE TypeOK'
  BY <1>14 DEF Commit, Goto, TypeOK
<1>15. ASSUME NEW c \in Calls, Lose(c) PROVE TypeOK'
  BY <1>15 DEF Lose, TypeOK
<1> QED
  BY <1>0, <1>1, <1>2, <1>3, <1>4, <1>5, <1>6, <1>7, <1>8, <1>9, <1>10, <1>11, <1>12,
     <1>13, <1>14, <1>15 DEF Next

\* Every variable of FileTools keeps its type: the disk holds inodes, the journal
\* what the disk held, however the calls interleave and wherever they stop.
THEOREM TypeCorrect == Spec => []TypeOK
<1>1. Init => TypeOK
  BY InitType
<1>2. TypeOK /\ [Next]_vars => TypeOK'
  BY StepType
<1> QED
  BY <1>1, <1>2, PTL DEF Spec

-----------------------------------------------------------------------------
(* Writes are whole *)

\* The invariant holds at first: no temporary file, and each inode at its path.
LEMMA InitIInv == Init => IInv
<1> SUFFICES ASSUME Init PROVE IInv
  OBVIOUS
<1>1. TypeOK
  BY InitType
<1>2. LockInv /\ OpenInv
  BY DEF Init, LockInv, OpenInv, Writing
<1>3. TmpInv /\ FreshInv
  BY FileToolsAssumption DEF Init, TmpInv, FreshInv, None
<1>4. WritesAreWhole
  BY FileToolsAssumption DEF Init, WritesAreWhole, Inodes, Empty
<1> QED
  BY <1>1, <1>2, <1>3, <1>4 DEF IInv

\* A step that leaves the lock, the requests and the disk alone, and takes no
\* call to where it writes, keeps the invariant.
LEMMA IdleStep ==
  ASSUME IInv, TypeOK', UNCHANGED <<files, tmp, data, req, handle>>,
         NEW c \in Calls, NEW to, pc' = [pc EXCEPT ![c] = to],
         to \notin Writing \cup {"idle"},
         to = "commit" => holder = c,
         \A d \in Calls \ {c} : holder = d => holder' = d,
         to = "commit" => holder' = c,
         to = "journal" => pc[c] = "idle"
  PROVE  IInv'
<1> USE DEF IInv, TypeOK
<1>1. LockInv'
  BY DEF LockInv, Writing
<1>2. FreshInv'
  BY DEF FreshInv, Writing
<1>3. OpenInv'
  BY DEF OpenInv, Writing
<1>4. TmpInv' /\ WritesAreWhole'
  BY DEF TmpInv, WritesAreWhole
<1> QED
  BY <1>1, <1>2, <1>3, <1>4

\* A call that works while another has the lock is no writer; neither is one
\* that is about to commit.
LEMMA OneWriter ==
  ASSUME IInv, NEW c \in Calls, holder = c, NEW d \in Calls \ {c}
  PROVE  pc[d] \notin Writing \cup {"commit"}
  BY DEF IInv, LockInv

\* Moving an inode from a path to another, or to the trash, keeps the invariant:
\* no path gets an inode that none had.
LEMMA MoveStep ==
  ASSUME IInv, TypeOK', UNCHANGED <<tmp, data, holder, req, handle>>,
         NEW c \in Calls, NEW to, pc' = [pc EXCEPT ![c] = to],
         to \notin Writing \cup {"idle", "journal"},
         to = "commit" => holder = c,
         \A p \in Paths : files'[p] # None => \E q \in Paths : files'[p] = files[q]
  PROVE  IInv'
<1> USE DEF IInv, TypeOK
<1>1. LockInv'
  BY DEF LockInv, Writing
<1>2. TmpInv'
  <2>1. ASSUME NEW p \in Paths, NEW q \in Paths, tmp[p] # None, files'[q] = tmp[p]
        PROVE  FALSE
    BY <2>1 DEF TmpInv
  <2> QED
    BY <2>1 DEF TmpInv
<1>3. FreshInv'
  <2> SUFFICES ASSUME NEW d \in Calls, pc'[d] \in {"idle", "journal", "open"},
                      NEW p \in Paths
               PROVE  files'[p] # d /\ tmp'[p] # d
    BY DEF FreshInv
  <2>1. pc[d] \in {"idle", "journal", "open"}
    BY DEF Writing
  <2>2. files'[p] = None \/ files'[p] # d
    BY <2>1 DEF FreshInv
  <2> QED
    BY <2>1, <2>2, FileToolsAssumption DEF FreshInv, None
<1>4. OpenInv'
  BY DEF OpenInv, Writing
<1>5. WritesAreWhole'
  BY DEF WritesAreWhole
<1> QED
  BY <1>1, <1>2, <1>3, <1>4, <1>5

\* Every step keeps the invariant, if no thread that writes outlives its call.
LEMMA StepIInv ==
  ASSUME NoLateWriter
  PROVE  IInv /\ [Next]_vars => IInv'
<1> SUFFICES ASSUME IInv, [Next]_vars PROVE IInv'
  OBVIOUS
<1> USE DEF IInv, disk
<1>t. TypeOK /\ TypeOK'
  BY StepType
<1>0. CASE UNCHANGED vars
  BY <1>0, <1>t DEF vars, LockInv, TmpInv, FreshInv, OpenInv, WritesAreWhole
<1>1. ASSUME NEW c \in Calls, DryRun(c) PROVE IInv'
  BY <1>1, <1>t, IdleStep DEF DryRun, Goto, Writing
<1>2. ASSUME NEW c \in Calls, Blocked(c) PROVE IInv'
  BY <1>2, <1>t, IdleStep DEF Blocked, Writing
<1>3. ASSUME NEW c \in Calls, RecordBefore(c) PROVE IInv'
  <2>1. pc'[c] = "open" => req[c].tool = "write"
    BY <1>3, <1>t DEF RecordBefore, Goto, TypeOK
  <2>2. pc'[c] \in {"open", "look", "remove"} /\ pc[c] = "journal"
    BY <1>3, <1>t DEF RecordBefore, Goto, TypeOK
  <2>3. \A d \in Calls \ {c} : pc'[d] = pc[d]
    BY <1>3, <1>t DEF RecordBefore, Goto, TypeOK
  <2>4. UNCHANGED <<files, tmp, data, req, handle>> /\ holder = None /\ holder' = c
    BY <1>3 DEF RecordBefore
  <2>5. LockInv'
    BY <2>1, <2>2, <2>3, <2>4, FileToolsAssumption DEF LockInv, Writing, None
  <2>6. FreshInv' /\ OpenInv'
    BY <2>2, <2>3, <2>4 DEF FreshInv, OpenInv
  <2>7. TmpInv' /\ WritesAreWhole'
    BY <2>4 DEF TmpInv, WritesAreWhole
  <2> QED
    BY <1>t, <2>5, <2>6, <2>7
<1>4. ASSUME NEW c \in Calls, OpenTmp(c) PROVE IInv'
  <2> DEFINE p == req[c].path
             inode == IF tmp[p] = None THEN c ELSE tmp[p]
  <2>1. p \in Paths /\ inode \in Inodes /\ inode # None
    BY <1>t, Shapes, FileToolsAssumption DEF Inodes, TypeOK, None
  <2>2. /\ pc[c] = "open" /\ pc' = [pc EXCEPT ![c] = "fill"]
        /\ handle' = [handle EXCEPT ![c] = inode]
        /\ tmp' = [tmp EXCEPT ![p] = inode]
        /\ data' = [data EXCEPT ![inode] = Empty]
        /\ UNCHANGED <<files, holder, req>>
    BY <1>4 DEF OpenTmp, Goto
  <2>3. holder = c
    BY <2>2 DEF LockInv, Writing
  <2>4. \A q \in Paths : files[q] # inode
    BY <2>1, <2>2 DEF TmpInv, FreshInv
  <2>5. \A q \in Paths \ {p} : tmp[q] # inode
    BY <2>1, <2>2 DEF TmpInv, FreshInv
  <2>6. LockInv'
    BY <1>t, <2>2, <2>3 DEF LockInv, Writing, TypeOK
  <2>7. TmpInv'
    BY <1>t, <2>1, <2>2, <2>4, <2>5 DEF TmpInv, TypeOK
  <2>8. FreshInv'
    <3> SUFFICES ASSUME NEW d \in Calls, pc'[d] \in {"idle", "journal", "open"},
                        NEW q \in Paths
                 PROVE  files'[q] # d /\ tmp'[q] # d
      BY DEF FreshInv
    <3>1. d # c /\ pc[d] \in {"idle", "journal", "open"}
      BY <1>t, <2>2 DEF TypeOK
    <3>2. inode # d
      BY <2>1, <3>1 DEF FreshInv
    <3> QED
      BY <1>t, <2>1, <2>2, <3>1, <3>2 DEF FreshInv, TypeOK
  <2>9. OpenInv'
    <3> SUFFICES ASSUME NEW d \in Calls, pc'[d] \in {"fill", "swap"}
                 PROVE  d = c
      BY <1>t, <2>1, <2>2 DEF OpenInv, TypeOK
    <3> QED
      BY <1>t, <2>2, <2>3, OneWriter DEF TypeOK, Writing
  <2>10. WritesAreWhole'
    BY <1>t, <2>1, <2>2, <2>4 DEF WritesAreWhole, TypeOK
  <2> QED
    BY <1>t, <2>6, <2>7, <2>8, <2>9, <2>10
<1>5. ASSUME NEW c \in Calls, FillTmp(c) PROVE IInv'
  <2>1. /\ pc[c] = "fill" /\ pc' = [pc EXCEPT ![c] = "swap"]
        /\ data' = [data EXCEPT ![handle[c]] = c]
        /\ UNCHANGED <<files, tmp, holder, req, handle>>
    BY <1>5 DEF FillTmp, Goto
  <2>2. handle[c] \in Inodes /\ tmp[req[c].path] = handle[c]
    BY <2>1 DEF OpenInv
  <2>3. holder = c
    BY <2>1 DEF LockInv, Writing
  <2>4. LockInv'
    BY <1>t, <2>1, <2>3 DEF LockInv, Writing, TypeOK
  <2>5. TmpInv' /\ FreshInv'
    BY <1>t, <2>1 DEF TmpInv, FreshInv, TypeOK
  <2>6. OpenInv'
    BY <1>t, <2>1, <2>2, <2>3, OneWriter DEF OpenInv, TypeOK, Writing
  <2>7. WritesAreWhole'
    BY <1>t, <2>1, FileToolsAssumption DEF WritesAreWhole, TypeOK, Empty
  <2> QED
    BY <1>t, <2>4, <2>5, <2>6, <2>7
<1>6. ASSUME NEW c \in Calls, SwapTmp(c) PROVE IInv'
  <2> DEFINE p == req[c].path
  <2>1. /\ pc[c] = "swap" /\ holder = c
        /\ p \in Paths /\ tmp[p] = handle[c] /\ handle[c] \in Inodes /\ data[handle[c]] = c
    BY <1>6, <1>t, Shapes DEF SwapTmp, Goto, OpenInv, LockInv, Writing
  <2>2. tmp[p] # None /\ data[tmp[p]] # Empty
    BY <1>t, <2>1, Shapes DEF Contents
  <2>3. /\ pc' = [pc EXCEPT ![c] = "commit"]
        /\ files' = [files EXCEPT ![p] = tmp[p]]
        /\ tmp' = [tmp EXCEPT ![p] = None]
        /\ UNCHANGED <<data, holder, req, handle>>
    BY <1>6, <2>1, <2>2 DEF SwapTmp, Goto, After
  <2>4. LockInv'
    BY <1>t, <2>1, <2>3 DEF LockInv, Writing, TypeOK
  <2>5. TmpInv'
    BY <1>t, <2>1, <2>2, <2>3 DEF TmpInv, TypeOK
  <2>6. FreshInv'
    BY <1>t, <2>1, <2>2, <2>3, FileToolsAssumption DEF FreshInv, TypeOK, None
  <2>7. OpenInv'
    BY <1>t, <2>1, <2>3, OneWriter DEF OpenInv, TypeOK, Writing
  <2>8. WritesAreWhole'
    BY <1>t, <2>1, <2>2, <2>3 DEF WritesAreWhole, TypeOK
  <2> QED
    BY <1>t, <2>4, <2>5, <2>6, <2>7, <2>8
<1>7. ASSUME NEW c \in Calls, LookDst(c) PROVE IInv'
  BY <1>7, <1>t, IdleStep DEF LookDst, Goto, Writing
<1>8. ASSUME NEW c \in Calls, NEW to \in {"check", "commit"}, ToTrash(c, to),
             UNCHANGED <<tmp, data, holder, req, handle>>
      PROVE  IInv'
  <2>1. PICK next \in {"check", "commit", "outlived"} :
          pc' = [pc EXCEPT ![c] = next] /\ (next = "commit" => holder = c)
    BY <1>8 DEF ToTrash, After
  <2>2. \A p \in Paths : files'[p] # None => files'[p] = files[p]
    BY <1>8, <1>t DEF ToTrash, TypeOK
  <2> QED
    BY <1>8, <1>t, <2>1, <2>2, MoveStep DEF Writing
<1>9. ASSUME NEW c \in Calls, TrashDst(c) PROVE IInv'
  BY <1>9, <1>8 DEF TrashDst
<1>10. ASSUME NEW c \in Calls, Delete(c) PROVE IInv'
  BY <1>10, <1>8 DEF Delete
<1>11. ASSUME NEW c \in Calls, CheckMove(c) PROVE IInv'
  BY <1>11, <1>t, IdleStep DEF CheckMove, Goto, After, Writing
<1>12. ASSUME NEW c \in Calls, RenameSrc(c) PROVE IInv'
  <2>1. PICK next \in {"commit", "outlived"} :
          pc' = [pc EXCEPT ![c] = next] /\ (next = "commit" => holder = c)
    BY <1>12 DEF RenameSrc, Goto, After
  <2>2. \A p \in Paths : files'[p] # None => \E q \in Paths : files'[p] = files[q]
    BY <1>12, <1>t, Shapes DEF RenameSrc, TypeOK
  <2> QED
    BY <1>12, <1>t, <2>1, <2>2, MoveStep DEF RenameSrc, Writing
<1>13. ASSUME NEW c \in Calls, RunFails(c) PROVE IInv'
  <2>1. PICK next \in {"commit", "outlived"} :
          pc' = [pc EXCEPT ![c] = next] /\ (next = "commit" => holder = c)
    BY <1>13 DEF RunFails, After
  <2>2. UNCHANGED <<files, data, holder, req, handle>>
    BY <1>13 DEF RunFails
  <2>3. CASE UNCHANGED tmp
    BY <1>t, <2>1, <2>2, <2>3, IdleStep DEF Writing
  <2>4. CASE pc[c] \in Writing /\ tmp' = [tmp EXCEPT ![req[c].path] = None]
    <3>1. holder = c /\ req[c].path \in Paths
      BY <1>t, <2>4, Shapes DEF LockInv
    <3>2. LockInv'
      BY <1>t, <2>1, <2>2 DEF LockInv, Writing, TypeOK
    <3>3. TmpInv' /\ WritesAreWhole'
      BY <1>t, <2>2, <2>4 DEF TmpInv, WritesAreWhole, TypeOK
    <3>4. FreshInv'
      BY <1>t, <2>1, <2>2, <2>4, FileToolsAssumption DEF FreshInv, TypeOK, None
    <3>5. OpenInv'
      BY <1>t, <2>1, <2>2, <3>1, OneWriter DEF OpenInv, TypeOK, Writing
    <3> QED
      BY <1>t, <3>2, <3>3, <3>4, <3>5
  <2> QED
    BY <1>13, <2>3, <2>4 DEF RunFails, Writing
<1>14. ASSUME NEW c \in Calls, Abandon(c) PROVE IInv'
  <2>1. /\ c \in Late /\ pc[c] \in AtWork /\ holder = c
        /\ holder' = None /\ UNCHANGED <<files, tmp, data, pc, req, handle>>
    BY <1>14 DEF Abandon
  <2>2. pc[c] \notin Writing \cup {"commit"}
    BY <2>1 DEF LockInv, NoLateWriter, AtWork
  <2>3. LockInv'
    BY <2>1, <2>2, OneWriter DEF LockInv
  <2> QED
    BY <1>t, <2>1, <2>3 DEF TmpInv, FreshInv, OpenInv, WritesAreWhole
<1>15. ASSUME NEW c \in Calls, Commit(c) PROVE IInv'
  <2>1. holder = c
    BY <1>15 DEF Commit, Goto, LockInv
  <2> QED
    BY <1>15, <1>t, <2>1, IdleStep DEF Commit, Goto, Writing
<1>16. ASSUME NEW c \in Calls, Lose(c) PROVE IInv'
  BY <1>16, <1>t, IdleStep DEF Lose, Writing
<1> QED
  BY <1>0, <1>1, <1>2, <1>3, <1>4, <1>5, <1>6, <1>7, <1>9, <1>10, <1>11, <1>12, <1>13,
     <1>14, <1>15, <1>16 DEF Next

(***************************************************************************)
(* A path never holds a file half written, whatever fails and however many *)
(* calls of fs.write_file, fs.move and fs.delete there are, as long as no  *)
(* thread that writes outlives its call: the lock of the database keeps    *)
(* two writers from the one temporary file of a path.                      *)
(***************************************************************************)
THEOREM AtomicWrites == ASSUME NoLateWriter PROVE Spec => []WritesAreWhole
<1>1. Init => IInv
  BY InitIInv
<1>2. IInv /\ [Next]_vars => IInv'
  BY StepIInv
<1>3. IInv => WritesAreWhole
  BY DEF IInv
<1> QED
  BY <1>1, <1>2, <1>3, PTL DEF Spec

-----------------------------------------------------------------------------
(* Nothing is lost *)

\* What a call has done so far shows in where it is.
LocalInv ==
  \A c \in Calls :
    /\ holder = c => pc[c] \in AtWork \cup {"commit"}
    /\ pc[c] \in AtWork \cup {"commit", "outlived"} => c \in journaled
    /\ pc[c] \in {"idle", "journal"} => c \notin journaled
    /\ pc[c] \in {"look", "trash", "check", "rename"} => req[c].tool = "move"
    /\ pc[c] = "remove" => req[c].tool = "delete"
    /\ snapshot[c].content # None => req[c].tool = "write"
    /\ pc[c] \in {"idle", "journal", "look", "trash", "remove"} \cup Writing =>
         replaced[c] = None /\ trash[c] = None

\* Calls of one run take turns.
SerialInv ==
  \A c, d \in Calls : c # d /\ RunOf[c] = RunOf[d] /\ Active(c) => ~Active(d)

\* Nobody writes to what is in the trash.
TrashInv ==
  \A c \in Calls :
    /\ trash[c] # None => \A p \in Paths : tmp[p] # trash[c]
    /\ \A d \in Calls : pc[d] \in {"idle", "journal", "open"} => trash[c] # d

\* What a move has taken away is in its folder of the trash.
TakenInv ==
  \A c \in Calls :
    pc[c] \in {"check", "rename"} /\ replaced[c] # None =>
      trash[c] # None /\ data[trash[c]] = replaced[c]

\* The rehearsal holds until the call replaces the file, if it is alone.
BeforeInv ==
  \A c \in Calls :
    pc[c] \in AtWork \cup {"journal"} /\ replaced[c] = None /\ ~Contended(c) =>
      /\ snapshot[c].existed = (files[req[c].path] # None)
      /\ req[c].tool = "write" /\ ContentAt(req[c].path) \notin Large =>
           snapshot[c].content = ContentAt(req[c].path)

RowInv ==
  \A c \in Calls :
    replaced[c] # None /\ ~Contended(c) =>
      /\ snapshot[c].existed
      /\ \/ replaced[c] \in Large
         \/ snapshot[c].content = replaced[c]
         \/ trash[c] # None /\ data[trash[c]] = replaced[c]

\* A move finds its destination free, but for what slipped past the lock.
MoveInv ==
  \A c \in Calls :
    /\ pc[c] = "rename" \/ (pc[c] = "check" /\ req[c].overwrite)
    /\ files[req[c].path] # None
    => Raced(c)

UInv == LocalInv /\ SerialInv /\ TrashInv /\ TakenInv /\ BeforeInv /\ RowInv /\ MoveInv

\* Where a content may be, or why it is nowhere.
OnDisk(x) ==
  \/ \E p \in Paths : ContentAt(p) = x
  \/ \E c \in Calls : trash[c] # None /\ data[trash[c]] = x

Exempt(x) ==
  \E c \in Calls :
    /\ replaced[c] = x
    /\ pc[c] = "lost" \/ Raced(c) \/ (req[c].tool = "write" /\ Contended(c))

Accounted(x) ==
  \/ OnDisk(x)
  \/ \E c \in journaled : replaced[c] = x /\ snapshot[c].content = x
  \/ Exempt(x)

SnapInv ==
  \A x \in Contents \ Large, c \in Calls : snapshot[c].content = x => Accounted(x)

\* The steps of one call.
Step(c) ==
  \/ DryRun(c) \/ Blocked(c) \/ RecordBefore(c)
  \/ OpenTmp(c) \/ FillTmp(c) \/ SwapTmp(c)
  \/ LookDst(c) \/ TrashDst(c) \/ CheckMove(c) \/ RenameSrc(c) \/ Delete(c)
  \/ RunFails(c) \/ Abandon(c) \/ Commit(c) \/ Lose(c)

\* A step of a call leaves the others where they are.
LEMMA OthersStay ==
  ASSUME IInv, NEW d \in Calls, Step(d), NEW c \in Calls \ {d}
  PROVE  /\ pc'[c] = pc[c] /\ snapshot'[c] = snapshot[c] /\ replaced'[c] = replaced[c]
         /\ trash'[c] = trash[c]
         /\ c \in journaled' <=> c \in journaled
         /\ holder' = c <=> holder = c
<1> USE DEF IInv, TypeOK, LockInv, disk, Goto, Writing
<1>0. None \notin Calls
  BY FileToolsAssumption DEF None
<1>1. CASE DryRun(d) \/ Blocked(d) \/ Commit(d) \/ Lose(d)
  BY <1>0, <1>1 DEF DryRun, Blocked, Commit, Lose, Active
<1>2. CASE RecordBefore(d) \/ Abandon(d) \/ LookDst(d) \/ CheckMove(d)
  BY <1>0, <1>2 DEF RecordBefore, Abandon, LookDst, CheckMove
<1>3. CASE OpenTmp(d) \/ FillTmp(d) \/ SwapTmp(d)
  BY <1>3 DEF OpenTmp, FillTmp, SwapTmp
<1>4. CASE TrashDst(d) \/ Delete(d)
  BY <1>4 DEF TrashDst, Delete, ToTrash
<1>5. CASE RenameSrc(d) \/ RunFails(d)
  BY <1>5 DEF RenameSrc, RunFails
<1> QED
  BY <1>1, <1>2, <1>3, <1>4, <1>5 DEF Step

\* What a call is asked for never changes.
LEMMA RequestsStay == [Next]_vars => req' = req
  BY DEF Next, vars, disk, DryRun, Blocked, RecordBefore, OpenTmp, FillTmp, SwapTmp, LookDst,
         TrashDst, CheckMove, RenameSrc, Delete, RunFails, Abandon, Commit, Lose

\* A step is one of a call's.
LEMMA StepOfACall == [Next]_vars => UNCHANGED vars \/ \E c \in Calls : Step(c)
  BY DEF Next, Step

\* And each of those is one.
LEMMA StepIsNext == ASSUME NEW c \in Calls, Step(c) PROVE [Next]_vars
  BY DEF Next, Step

\* What has outlived its call stays so, and who has begun has begun: no race ends.
LEMMA RacesStay ==
  ASSUME IInv, LocalInv, NEW d \in Calls, Step(d), NEW c \in Calls
  PROVE  /\ Outlived(c) => Outlived(c)'
         /\ \A b \in Calls : Meets(c, b) => Meets(c, b)'
         /\ Raced(c) => Raced(c)'
         /\ Contended(c) => Contended(c)'
<1> USE DEF IInv, TypeOK, disk, Goto
<1>0. req' = req
  BY RequestsStay, StepIsNext
<1>1. \A b \in Calls : pc[b] # "idle" => pc'[b] # "idle"
  <2> SUFFICES pc'[d] # "idle"
    BY OthersStay
  <2>1. CASE DryRun(d) \/ Blocked(d) \/ RecordBefore(d) \/ OpenTmp(d) \/ FillTmp(d) \/ LookDst(d)
    BY <2>1 DEF DryRun, Blocked, RecordBefore, OpenTmp, FillTmp, LookDst
  <2>2. CASE SwapTmp(d) \/ TrashDst(d) \/ CheckMove(d) \/ RenameSrc(d) \/ Delete(d) \/ RunFails(d)
    BY <2>2 DEF SwapTmp, TrashDst, CheckMove, RenameSrc, Delete, RunFails, ToTrash, After
  <2>3. CASE Abandon(d) \/ Commit(d) \/ Lose(d)
    BY <2>3 DEF Abandon, Commit, Lose, AtWork
  <2> QED
    BY <2>1, <2>2, <2>3 DEF Step
<1>2. ASSUME NEW b \in Calls, Outlived(b) PROVE Outlived(b)'
  <2>1. CASE b # d
    BY <1>2, <2>1, OthersStay DEF Outlived
  <2>2. CASE b = d
    <3>1. holder # d /\ pc[d] \in AtWork \cup {"outlived"}
      BY <1>2, <2>2 DEF Outlived, LocalInv, AtWork
    <3>2. CASE OpenTmp(d) \/ FillTmp(d) \/ LookDst(d)
      BY <2>2, <3>1, <3>2 DEF OpenTmp, FillTmp, LookDst, Outlived, AtWork
    <3>3. CASE SwapTmp(d) \/ TrashDst(d) \/ Delete(d)
      BY <2>2, <3>1, <3>3 DEF SwapTmp, TrashDst, Delete, ToTrash, After, Outlived
    <3>4. CASE CheckMove(d) \/ RenameSrc(d) \/ RunFails(d)
      BY <2>2, <3>1, <3>4 DEF CheckMove, RenameSrc, RunFails, After, Outlived, AtWork
    <3>5. CASE DryRun(d) \/ Blocked(d) \/ RecordBefore(d) \/ Abandon(d) \/ Commit(d) \/ Lose(d)
      BY <3>1, <3>5 DEF DryRun, Blocked, RecordBefore, Abandon, Commit, Lose, Active, AtWork
    <3> QED
      BY <3>2, <3>3, <3>4, <3>5 DEF Step
  <2> QED
    BY <2>1, <2>2
<1>3. ASSUME NEW b \in Calls, Meets(c, b) PROVE Meets(c, b)'
  BY <1>0, <1>1, <1>3 DEF Meets
<1>4. Raced(c) => Raced(c)'
  BY <1>2, <1>3 DEF Raced
<1> QED
  BY <1>2, <1>3, <1>4 DEF Contended

\* Only temporary files are written to: what is at a path or in the trash keeps
\* its content.
LEMMA ContentsStay ==
  ASSUME IInv, LocalInv, TrashInv, NEW d \in Calls, Step(d), NEW i \in Inodes,
         (\E p \in Paths : files[p] = i) \/ (\E c \in Calls : trash[c] = i)
  PROVE  data'[i] = data[i]
<1> USE DEF IInv, TypeOK, disk, Goto
<1>0. i # None
  BY FileToolsAssumption DEF Inodes, None
<1>1. CASE OpenTmp(d)
  <2> DEFINE inode == IF tmp[req[d].path] = None THEN d ELSE tmp[req[d].path]
  <2>1. data' = [data EXCEPT ![inode] = Empty] /\ pc[d] = "open" /\ req[d].path \in Paths
    BY <1>1, Shapes DEF OpenTmp
  <2>2. inode # i
    BY <1>0, <2>1 DEF TmpInv, FreshInv, TrashInv
  <2> QED
    BY <2>1, <2>2
<1>2. CASE FillTmp(d)
  <2>1. data' = [data EXCEPT ![handle[d]] = d] /\ pc[d] = "fill" /\ req[d].path \in Paths
    BY <1>2, Shapes DEF FillTmp
  <2>2. handle[d] # i
    BY <1>0, <2>1 DEF TmpInv, OpenInv, TrashInv
  <2> QED
    BY <2>1, <2>2
<1>3. CASE UNCHANGED data
  BY <1>3
<1>4. OpenTmp(d) \/ FillTmp(d) \/ UNCHANGED data
  BY DEF Step, DryRun, Blocked, RecordBefore, SwapTmp, LookDst, TrashDst, CheckMove, RenameSrc,
         Delete, RunFails, Abandon, Commit, Lose
<1> QED
  BY <1>1, <1>2, <1>3, <1>4

\* Who changes what is at a path is at work there.
LEMMA WhoMoves ==
  ASSUME IInv, NEW d \in Calls, Step(d), NEW p \in Paths, files'[p] # files[p]
  PROVE  pc[d] \in AtWork /\ p \in {req[d].path, req[d].src}
<1> USE DEF IInv, TypeOK, disk, Goto, AtWork
<1>1. CASE SwapTmp(d)
  BY <1>1 DEF SwapTmp
<1>2. CASE TrashDst(d) \/ Delete(d)
  BY <1>2 DEF TrashDst, Delete, ToTrash
<1>3. CASE RenameSrc(d)
  BY <1>3 DEF RenameSrc
<1>4. SwapTmp(d) \/ TrashDst(d) \/ Delete(d) \/ RenameSrc(d)
  BY DEF Step, DryRun, Blocked, RecordBefore, OpenTmp, FillTmp, LookDst, CheckMove, RunFails,
         Abandon, Commit, Lose
<1> QED
  BY <1>1, <1>2, <1>3, <1>4

\* Nobody comes to the path of a call at work but past the lock, nor to that of
\* a call rehearsed but from another run or past it.
LEMMA Intrusion ==
  ASSUME IInv, LocalInv, SerialInv, NEW d \in Calls, Step(d), NEW c \in Calls \ {d},
         files'[req[c].path] # files[req[c].path]
  PROVE  /\ pc[c] \in AtWork => Raced(c)'
         /\ pc[c] = "journal" => Contended(c)'
<1>1. pc[d] \in AtWork /\ Meets(c, d)
  BY Shapes, WhoMoves DEF IInv, Meets, AtWork
<1>2. Meets(c, d)'
  BY <1>1, RacesStay
<1>3. CASE Outlived(c) \/ Outlived(d)
  <2>1. Outlived(c)' \/ Outlived(d)'
    BY <1>3, RacesStay
  <2> QED
    BY <1>2, <2>1 DEF Raced, Contended
<1>4. CASE ~Outlived(c) /\ ~Outlived(d)
  <2>1. holder = d
    BY <1>1, <1>4 DEF Outlived
  <2>2. pc[c] \notin AtWork
    BY <1>4, <2>1 DEF Outlived
  <2>3. pc[c] = "journal" => RunOf[c] # RunOf[d]
    BY <2>1 DEF SerialInv, Active
  <2> QED
    BY <1>2, <2>2, <2>3 DEF Contended
<1> QED
  BY <1>3, <1>4

\* Every step keeps what a call has done in line with where it is, and calls of one
\* run in turn: a rehearsal waits for the others of the run.
LEMMA StepLocal ==
  ASSUME IInv, LocalInv, SerialInv, NEW d \in Calls, Step(d)
  PROVE  LocalInv' /\ SerialInv'
<1> USE DEF IInv, TypeOK, LockInv, disk, Goto
<1>0. req' = req /\ None \notin Calls
  BY RequestsStay, StepIsNext, FileToolsAssumption DEF None
<1> DEFINE Here(c) ==
      /\ holder = c => pc[c] \in AtWork \cup {"commit"}
      /\ pc[c] \in AtWork \cup {"commit", "outlived"} => c \in journaled
      /\ pc[c] \in {"idle", "journal"} => c \notin journaled
      /\ pc[c] \in {"look", "trash", "check", "rename"} => req[c].tool = "move"
      /\ pc[c] = "remove" => req[c].tool = "delete"
      /\ snapshot[c].content # None => req[c].tool = "write"
      /\ pc[c] \in {"idle", "journal", "look", "trash", "remove"} \cup Writing =>
           replaced[c] = None /\ trash[c] = None
<1>1. \A c \in Calls : Here(c)
  BY DEF LocalInv
<1>2. Here(d)'
  <2> USE <1>0, <1>1 DEF AtWork, Writing
  <2>1. CASE DryRun(d)
    BY <2>1 DEF DryRun, Snapshot, Active
  <2>2. CASE RecordBefore(d)
    <3>1. /\ pc'[d] \in {"open", "look", "remove"} /\ pc[d] = "journal"
          /\ pc'[d] = "open" => req[d].tool = "write"
          /\ pc'[d] = "look" => req[d].tool = "move"
          /\ pc'[d] = "remove" => req[d].tool = "delete"
      BY <2>2, Shapes DEF RecordBefore, Requests
    <3> QED
      BY <2>2, <3>1 DEF RecordBefore
  <2>3. CASE OpenTmp(d) \/ FillTmp(d) \/ SwapTmp(d)
    BY <2>3 DEF OpenTmp, FillTmp, SwapTmp, After
  <2>4. CASE LookDst(d) \/ CheckMove(d) \/ RenameSrc(d)
    BY <2>4 DEF LookDst, CheckMove, RenameSrc, After
  <2>5. CASE TrashDst(d) \/ Delete(d)
    BY <2>5 DEF TrashDst, Delete, ToTrash, After
  <2>6. CASE RunFails(d) \/ Abandon(d)
    BY <2>6 DEF RunFails, Abandon, After
  <2>7. CASE Blocked(d) \/ Commit(d) \/ Lose(d)
    BY <2>7 DEF Blocked, Commit, Lose, Active
  <2> QED
    BY <2>1, <2>2, <2>3, <2>4, <2>5, <2>6, <2>7 DEF Step
<1>3. ASSUME NEW c \in Calls \ {d} PROVE Here(c)'
  BY <1>0, <1>1, OthersStay
<1>4. ASSUME NEW c \in Calls \ {d}, RunOf[c] = RunOf[d], Active(c) PROVE ~Active(d)'
  <2>1. ~Active(d) /\ ~DryRun(d)
    BY <1>4 DEF SerialInv, DryRun
  <2>2. pc[d] # "journal" /\ holder # d
    BY <2>1 DEF Active
  <2>3. pc'[d] # "journal" /\ holder' # d
    <3>1. CASE Blocked(d) \/ RecordBefore(d) \/ OpenTmp(d) \/ FillTmp(d) \/ SwapTmp(d) \/ LookDst(d)
      BY <2>2, <3>1 DEF Blocked, RecordBefore, OpenTmp, FillTmp, SwapTmp, LookDst, After
    <3>2. CASE TrashDst(d) \/ CheckMove(d) \/ RenameSrc(d) \/ Delete(d) \/ RunFails(d)
      BY <2>2, <3>2 DEF TrashDst, CheckMove, RenameSrc, Delete, RunFails, ToTrash, After
    <3>3. CASE Abandon(d) \/ Commit(d) \/ Lose(d)
      BY <1>0, <2>2, <3>3 DEF Abandon, Commit, Lose
    <3> QED
      BY <2>1, <3>1, <3>2, <3>3 DEF Step
  <2> QED
    BY <2>3 DEF Active
<1>5. \A c \in Calls \ {d} : Active(c)' <=> Active(c)
  BY OthersStay DEF Active
<1>6. SerialInv'
  BY <1>4, <1>5 DEF SerialInv
<1> QED
  BY <1>2, <1>3, <1>6 DEF LocalInv

\* Every step keeps the trash: nothing in it is a file somebody has open, and what a
\* move has put there stays.
LEMMA StepTrash ==
  ASSUME IInv, LocalInv, TrashInv, TakenInv, NEW d \in Calls, Step(d)
  PROVE  TrashInv' /\ TakenInv'
<1> USE DEF IInv, TypeOK, disk, Goto
<1>0. req' = req /\ None \notin Inodes
  BY RequestsStay, StepIsNext, FileToolsAssumption DEF None, Inodes
<1>1. ASSUME NEW c \in Calls, trash'[c] # trash[c]
      PROVE  /\ c = d /\ trash[c] = None /\ files[req[c].path] # None
             /\ pc[c] \in {"trash", "remove"}
             /\ trash'[c] = files[req[c].path] /\ replaced'[c] = ContentAt(req[c].path)
             /\ UNCHANGED <<tmp, data>>
  <2>1. TrashDst(d) \/ Delete(d)
    BY <1>1 DEF Step, DryRun, Blocked, RecordBefore, OpenTmp, FillTmp, SwapTmp, LookDst,
                CheckMove, RenameSrc, RunFails, Abandon, Commit, Lose
  <2> QED
    BY <1>1, <2>1 DEF TrashDst, Delete, ToTrash, LocalInv
<1>2. ASSUME NEW p \in Paths
      PROVE  tmp'[p] \in {tmp[p], None} \/ (tmp'[p] = d /\ pc[d] = "open")
  <2>1. CASE OpenTmp(d)
    BY <2>1, Shapes DEF OpenTmp
  <2>2. CASE SwapTmp(d) \/ RunFails(d)
    BY <2>2, Shapes DEF SwapTmp, RunFails
  <2>3. OpenTmp(d) \/ SwapTmp(d) \/ RunFails(d) \/ UNCHANGED tmp
    BY DEF Step, DryRun, Blocked, RecordBefore, FillTmp, LookDst, TrashDst, CheckMove,
           RenameSrc, Delete, Abandon, Commit, Lose, ToTrash
  <2> QED
    BY <2>1, <2>2, <2>3
<1>3. ASSUME NEW e \in Calls, pc'[e] \in {"idle", "journal", "open"}
      PROVE  pc[e] \in {"idle", "journal", "open"}
  <2>1. CASE e # d
    BY <1>3, <2>1, OthersStay
  <2>2. CASE e = d
    <3>1. CASE DryRun(d) \/ Blocked(d) \/ RecordBefore(d) \/ OpenTmp(d) \/ FillTmp(d) \/ LookDst(d)
      BY <1>3, <2>2, <3>1 DEF DryRun, Blocked, RecordBefore, OpenTmp, FillTmp, LookDst
    <3>2. CASE SwapTmp(d) \/ TrashDst(d) \/ CheckMove(d) \/ RenameSrc(d) \/ Delete(d) \/ RunFails(d)
      BY <1>3, <2>2, <3>2 DEF SwapTmp, TrashDst, CheckMove, RenameSrc, Delete, RunFails, ToTrash, After
    <3>3. CASE Abandon(d) \/ Commit(d) \/ Lose(d)
      BY <1>3, <2>2, <3>3 DEF Abandon, Commit, Lose, AtWork
    <3> QED
      BY <3>1, <3>2, <3>3 DEF Step
  <2> QED
    BY <2>1, <2>2
<1>4. TrashInv'
  <2> SUFFICES ASSUME NEW c \in Calls
               PROVE  /\ trash'[c] # None => \A p \in Paths : tmp'[p] # trash'[c]
                      /\ \A e \in Calls : pc'[e] \in {"idle", "journal", "open"} => trash'[c] # e
    BY DEF TrashInv
  <2>1. CASE trash'[c] # trash[c]
    BY <1>1, <1>3, <2>1, Shapes DEF TmpInv, FreshInv
  <2>2. CASE trash'[c] = trash[c]
    BY <1>2, <1>3, <2>2 DEF TrashInv
  <2> QED
    BY <2>1, <2>2
<1>5. TakenInv'
  <2> SUFFICES ASSUME NEW c \in Calls, pc'[c] \in {"check", "rename"}, replaced'[c] # None
               PROVE  trash'[c] # None /\ data'[trash'[c]] = replaced'[c]
    BY DEF TakenInv
  <2>1. CASE trash'[c] # trash[c]
    BY <1>0, <1>1, <2>1 DEF ContentAt
  <2>2. CASE trash'[c] = trash[c]
    <3>1. pc[c] \in {"check", "rename"} /\ replaced'[c] = replaced[c]
      <4>1. CASE c # d
        BY <4>1, OthersStay
      <4>2. CASE c = d
        <5>1. LookDst(d) \/ TrashDst(d) \/ CheckMove(d) \/ Abandon(d)
          BY <4>2 DEF Step, DryRun, Blocked, RecordBefore, OpenTmp, FillTmp, SwapTmp,
                      RenameSrc, Delete, RunFails, Commit, Lose, ToTrash, After
        <5>2. ~TrashDst(d)
          BY <2>2, <4>2, Shapes DEF TrashDst, ToTrash, LocalInv, After
        <5> QED
          BY <4>2, <5>1, <5>2 DEF LookDst, CheckMove, Abandon, LocalInv
      <4> QED
        BY <4>1, <4>2
    <3>2. trash[c] # None /\ data[trash[c]] = replaced[c]
      BY <3>1 DEF TakenInv
    <3> QED
      BY <2>2, <3>1, <3>2, ContentsStay
  <2> QED
    BY <2>1, <2>2
<1> QED
  BY <1>4, <1>5

\* Every step leaves the destination of a move free, unless it slipped past the lock.
LEMMA StepMove ==
  ASSUME IInv, UInv, NEW d \in Calls, Step(d)
  PROVE  MoveInv'
<1> USE DEF IInv, UInv, TypeOK, disk, Goto
<1>0. req' = req
  BY RequestsStay, StepIsNext
<1> SUFFICES ASSUME NEW c \in Calls,
                    pc'[c] = "rename" \/ (pc'[c] = "check" /\ req[c].overwrite),
                    files'[req[c].path] # None
             PROVE  Raced(c)'
  BY <1>0 DEF MoveInv
<1>1. CASE c # d
  <2>1. pc[c] = pc'[c]
    BY <1>1, OthersStay
  <2>2. CASE files'[req[c].path] = files[req[c].path]
    BY <2>1, <2>2, RacesStay DEF MoveInv
  <2>3. CASE files'[req[c].path] # files[req[c].path]
    BY <1>1, <2>1, <2>3, Intrusion DEF AtWork
  <2> QED
    BY <2>2, <2>3
<1>2. CASE c = d
  <2>1. LookDst(d) \/ TrashDst(d) \/ CheckMove(d) \/ Abandon(d)
    BY <1>2 DEF Step, DryRun, Blocked, RecordBefore, OpenTmp, FillTmp, SwapTmp,
                RenameSrc, Delete, RunFails, Commit, Lose, ToTrash, After
  <2>2. ~LookDst(d)
    BY <1>2 DEF LookDst
  <2>3. ~TrashDst(d)
    BY <1>2, Shapes DEF TrashDst, ToTrash, After
  <2>4. CASE CheckMove(d)
    <3>1. pc[d] = "check" /\ req[d].overwrite /\ files[req[d].path] # None
      BY <1>2, <2>4, Shapes DEF CheckMove, After
    <3> QED
      BY <1>2, <3>1, RacesStay DEF MoveInv
  <2>5. CASE Abandon(d)
    BY <1>2, <2>5, RacesStay DEF Abandon, MoveInv
  <2> QED
    BY <2>1, <2>2, <2>3, <2>4, <2>5
<1> QED
  BY <1>1, <1>2

\* Every step leaves a rehearsal true, unless it contends with it.
LEMMA StepBefore ==
  ASSUME IInv, UInv, NEW d \in Calls, Step(d)
  PROVE  BeforeInv'
<1> USE DEF IInv, UInv, TypeOK, disk, Goto
<1>0. req' = req
  BY RequestsStay, StepIsNext
<1> SUFFICES ASSUME NEW c \in Calls, pc'[c] \in AtWork \cup {"journal"},
                    replaced'[c] = None, ~Contended(c)'
             PROVE  /\ snapshot'[c].existed = (files'[req[c].path] # None)
                    /\ req[c].tool = "write" /\ ContentAt(req[c].path)' \notin Large =>
                         snapshot'[c].content = ContentAt(req[c].path)'
  BY <1>0 DEF BeforeInv, ContentAt
<1>1. ~Contended(c) /\ req[c].path \in Paths
  BY RacesStay, Shapes
<1>2. ASSUME pc[c] \in AtWork \cup {"journal"}, replaced[c] = None,
             snapshot'[c] = snapshot[c], files'[req[c].path] = files[req[c].path]
      PROVE  /\ snapshot'[c].existed = (files'[req[c].path] # None)
             /\ req[c].tool = "write" /\ ContentAt(req[c].path)' \notin Large =>
                  snapshot'[c].content = ContentAt(req[c].path)'
  <2>1. ContentAt(req[c].path)' = ContentAt(req[c].path)
    <3>1. CASE files[req[c].path] = None
      BY <1>0, <1>2, <3>1 DEF ContentAt
    <3>2. CASE files[req[c].path] # None
      <4>1. data'[files[req[c].path]] = data[files[req[c].path]]
        BY <1>1, <3>2, ContentsStay
      <4> QED
        BY <1>0, <1>2, <3>2, <4>1 DEF ContentAt
    <3> QED
      BY <3>1, <3>2
  <2> QED
    BY <1>1, <1>2, <2>1 DEF BeforeInv
<1>3. CASE c # d
  <2>1. files'[req[c].path] = files[req[c].path]
    BY <1>3, OthersStay, Intrusion DEF Contended
  <2> QED
    BY <1>2, <1>3, <2>1, OthersStay
<1>4. CASE c = d
  <2>1. CASE DryRun(d)
    <3>1. snapshot'[c] = Snapshot(req[c]) /\ UNCHANGED <<files, data>>
      BY <1>4, <2>1 DEF DryRun
    <3> QED
      BY <1>0, <3>1 DEF Snapshot, ContentAt
  <2>2. CASE RecordBefore(d) \/ OpenTmp(d) \/ FillTmp(d) \/ LookDst(d) \/ CheckMove(d) \/ Abandon(d)
    <3>1. /\ pc[c] \in AtWork \cup {"journal"} /\ replaced[c] = None
          /\ snapshot'[c] = snapshot[c] /\ UNCHANGED files
      BY <1>4, <2>2 DEF RecordBefore, OpenTmp, FillTmp, LookDst, CheckMove, Abandon, AtWork
    <3> QED
      BY <1>2, <3>1
  <2>3. ~TrashDst(d)
    <3> SUFFICES ASSUME TrashDst(d), files[req[d].path] # None PROVE FALSE
      BY <1>4 DEF TrashDst, ToTrash, After, AtWork
    <3>1. replaced'[d] = ContentAt(req[d].path)
      BY DEF TrashDst, ToTrash
    <3>2. ContentAt(req[d].path) # None
      BY Shapes, FileToolsAssumption DEF ContentAt, Contents, None, Empty
    <3> QED
      BY <1>4, <3>1, <3>2
  <2> QED
    BY <1>4, <2>1, <2>2, <2>3 DEF Step, Blocked, SwapTmp, RenameSrc, Delete, RunFails, Commit,
                                  Lose, ToTrash, After, AtWork
<1> QED
  BY <1>3, <1>4

\* Every step leaves true what a row says of what its call has replaced.
LEMMA StepRow ==
  ASSUME IInv, UInv, NEW d \in Calls, Step(d)
  PROVE  RowInv'
<1> USE DEF IInv, UInv, TypeOK, disk, Goto
<1>0. req' = req
  BY RequestsStay, StepIsNext
<1> DEFINE Row(c) == /\ snapshot[c].existed
                     /\ \/ replaced[c] \in Large
                        \/ snapshot[c].content = replaced[c]
                        \/ trash[c] # None /\ data[trash[c]] = replaced[c]
<1> SUFFICES ASSUME NEW c \in Calls, replaced'[c] # None, ~Contended(c)' PROVE Row(c)'
  BY DEF RowInv
<1>1. ~Contended(c) /\ ~Raced(c) /\ req[c].path \in Paths
  BY RacesStay, Shapes DEF Contended
<1>2. ASSUME replaced'[c] = replaced[c], snapshot'[c] = snapshot[c], trash'[c] = trash[c]
      PROVE  Row(c)'
  BY <1>1, <1>2, ContentsStay DEF RowInv
<1>3. CASE c # d
  BY <1>2, <1>3, OthersStay
<1>4. CASE c = d
  <2>1. CASE SwapTmp(d)
    <3>1. CASE tmp[req[d].path] = None
      BY <1>2, <1>4, <2>1, <3>1 DEF SwapTmp
    <3>2. CASE tmp[req[d].path] # None
      <4>1. /\ replaced'[c] = ContentAt(req[c].path) /\ pc[c] = "swap"
            /\ snapshot'[c] = snapshot[c] /\ files[req[c].path] # None
        BY <1>4, <2>1, <3>2 DEF SwapTmp, ContentAt
      <4>2. replaced[c] = None /\ req[c].tool = "write"
        BY <4>1 DEF LocalInv, LockInv, Writing
      <4> QED
        BY <1>1, <4>1, <4>2 DEF BeforeInv, AtWork
    <3> QED
      BY <3>1, <3>2
  <2>2. CASE TrashDst(d) \/ Delete(d)
    <3>1. CASE files[req[d].path] = None
      BY <1>2, <1>4, <2>2, <3>1 DEF TrashDst, Delete, ToTrash
    <3>2. CASE files[req[d].path] # None
      <4>1. /\ replaced'[c] = ContentAt(req[c].path) /\ pc[c] \in {"trash", "remove"}
            /\ trash'[c] = files[req[c].path] /\ UNCHANGED <<snapshot, data>>
        BY <1>4, <2>2, <3>2 DEF TrashDst, Delete, ToTrash
      <4>2. replaced[c] = None /\ snapshot[c].existed
        BY <1>1, <1>4, <3>2, <4>1 DEF LocalInv, BeforeInv, AtWork
      <4> QED
        BY <1>4, <3>2, <4>1, <4>2 DEF ContentAt
    <3> QED
      BY <3>1, <3>2
  <2>3. CASE RenameSrc(d)
    <3>1. files[req[d].path] = None
      BY <1>1, <1>4, <2>3 DEF RenameSrc, MoveInv
    <3>2. replaced'[c] = replaced[c] /\ UNCHANGED <<snapshot, trash>>
      BY <1>4, <2>3, <3>1 DEF RenameSrc
    <3> QED
      BY <1>2, <3>2
  <2>4. CASE DryRun(d)
    BY <1>4, <2>4 DEF DryRun, LocalInv
  <2> QED
    BY <1>2, <1>4, <2>1, <2>2, <2>3, <2>4 DEF Step, Blocked, RecordBefore, OpenTmp, FillTmp,
       LookDst, CheckMove, RunFails, Abandon, Commit, Lose
<1> QED
  BY <1>3, <1>4

\* A content on the disk is there after a step, or what took it away says so.
LEMMA DiskAccounted ==
  ASSUME IInv, UInv, NEW d \in Calls, Step(d), NEW x \in Contents \ Large, OnDisk(x)
  PROVE  Accounted(x)'
<1> USE DEF IInv, UInv, TypeOK, disk, Goto
<1>0. req' = req /\ x # None
  BY RequestsStay, StepIsNext, FileToolsAssumption DEF None, Contents
<1>1. ASSUME NEW c \in Calls, trash[c] # None, data[trash[c]] = x PROVE OnDisk(x)'
  <2>1. trash'[c] = trash[c]
    <3>1. CASE TrashDst(d) \/ Delete(d)
      BY <1>1, <3>1 DEF TrashDst, Delete, ToTrash, LocalInv
    <3>2. TrashDst(d) \/ Delete(d) \/ UNCHANGED trash
      BY DEF Step, DryRun, Blocked, RecordBefore, OpenTmp, FillTmp, SwapTmp, LookDst,
             CheckMove, RenameSrc, RunFails, Abandon, Commit, Lose
    <3> QED
      BY <3>1, <3>2
  <2>2. data'[trash[c]] = data[trash[c]]
    BY <1>1, ContentsStay
  <2> QED
    BY <1>1, <2>1, <2>2 DEF OnDisk
<1>2. ASSUME NEW p \in Paths, ContentAt(p) = x PROVE Accounted(x)'
  <2>1. files[p] \in Inodes /\ files[p] # None /\ data[files[p]] = x
    BY <1>0, <1>2, Shapes DEF ContentAt
  <2>2. data'[files[p]] = x
    BY <2>1, ContentsStay
  <2>3. ASSUME NEW q \in Paths, files'[q] = files[p] PROVE Accounted(x)'
    BY <2>1, <2>2, <2>3 DEF Accounted, OnDisk, ContentAt
  <2>4. CASE SwapTmp(d) /\ files'[p] # files[p]
    <3>1. /\ p = req[d].path /\ pc[d] = "swap" /\ replaced'[d] = x
          /\ UNCHANGED <<snapshot, journaled>>
      BY <1>2, <2>4 DEF SwapTmp
    <3>2. req[d].tool = "write" /\ d \in journaled /\ replaced[d] = None
      BY <3>1 DEF LocalInv, LockInv, AtWork, Writing
    <3>3. CASE Contended(d)
      <4>1. Contended(d)'
        BY <3>3, RacesStay
      <4> QED
        BY <1>0, <3>1, <3>2, <4>1 DEF Accounted, Exempt
    <3>4. CASE ~Contended(d)
      <4>1. snapshot[d].content = x
        BY <1>2, <3>1, <3>2, <3>4 DEF BeforeInv, AtWork
      <4> QED
        BY <3>1, <3>2, <4>1 DEF Accounted
    <3> QED
      BY <3>3, <3>4
  <2>5. CASE (TrashDst(d) \/ Delete(d)) /\ files'[p] # files[p]
    <3>1. trash'[d] = files[p]
      BY <2>5 DEF TrashDst, Delete, ToTrash
    <3> QED
      BY <2>1, <2>2, <3>1 DEF Accounted, OnDisk
  <2>6. CASE RenameSrc(d) /\ files'[p] # files[p]
    <3>1. /\ pc[d] = "rename" /\ req[d].src # req[d].path /\ p \in {req[d].src, req[d].path}
          /\ files'[req[d].path] = files[req[d].src]
      BY <2>6, Shapes DEF RenameSrc
    <3>2. CASE p = req[d].src
      BY <2>3, <3>1, <3>2, Shapes
    <3>3. CASE p = req[d].path
      <4>1. Raced(d)' /\ replaced'[d] = x
        BY <1>2, <2>1, <2>6, <3>1, <3>3, RacesStay DEF RenameSrc, MoveInv
      <4> QED
        BY <4>1 DEF Accounted, Exempt
    <3> QED
      BY <3>1, <3>2, <3>3
  <2>7. SwapTmp(d) \/ TrashDst(d) \/ Delete(d) \/ RenameSrc(d) \/ UNCHANGED files
    BY DEF Step, DryRun, Blocked, RecordBefore, OpenTmp, FillTmp, LookDst, CheckMove,
           RunFails, Abandon, Commit, Lose
  <2> QED
    BY <2>3, <2>4, <2>5, <2>6, <2>7
<1> QED
  BY <1>1, <1>2 DEF OnDisk, Accounted

\* What a call says it has replaced stays, but for a move that takes two things away:
\* the first is in its trash.
LEMMA ReplacedStays ==
  ASSUME IInv, UInv, NEW d \in Calls, Step(d), NEW c \in Calls, replaced[c] # None,
         replaced'[c] # replaced[c]
  PROVE  /\ c = d /\ pc[c] = "rename" /\ UNCHANGED <<trash, data>>
         /\ trash[c] # None /\ data[trash[c]] = replaced[c]
<1> USE DEF IInv, UInv, TypeOK, disk, Goto
<1>1. c = d
  BY OthersStay
<1>2. RenameSrc(d)
  BY <1>1 DEF Step, DryRun, Blocked, RecordBefore, OpenTmp, FillTmp, SwapTmp, LookDst, TrashDst,
     CheckMove, Delete, ToTrash, RunFails, Abandon, Commit, Lose, LocalInv, Writing
<1> QED
  BY <1>1, <1>2 DEF RenameSrc, TakenInv

\* What is accounted for stays so.
LEMMA AccountsStay ==
  ASSUME IInv, UInv, NEW d \in Calls, Step(d), NEW x \in Contents \ Large, Accounted(x)
  PROVE  Accounted(x)'
<1> USE DEF IInv, UInv, TypeOK, disk, Goto
<1>0. req' = req /\ x # None
  BY RequestsStay, StepIsNext, FileToolsAssumption DEF None, Contents
<1>1. CASE OnDisk(x)
  BY <1>1, DiskAccounted
<1>2. ASSUME NEW c \in Calls, replaced[c] = x, replaced'[c] # x PROVE Accounted(x)'
  BY <1>0, <1>2, ReplacedStays DEF Accounted, OnDisk
<1>3. ASSUME NEW c \in journaled, replaced[c] = x, snapshot[c].content = x PROVE Accounted(x)'
  <2>0. c \in Calls /\ pc[c] \notin {"idle", "journal"}
    BY <1>3 DEF LocalInv
  <2>1. CASE c \in journaled' /\ snapshot'[c] = snapshot[c]
    BY <1>2, <1>3, <2>0, <2>1 DEF Accounted
  <2>2. CASE c = d /\ Lose(d)
    <3>1. pc'[c] = "lost" /\ replaced'[c] = x
      BY <1>3, <2>0, <2>2 DEF Lose
    <3> QED
      BY <2>0, <3>1 DEF Accounted, Exempt
  <2>3. c # d => c \in journaled' /\ snapshot'[c] = snapshot[c]
    BY <1>3, <2>0, OthersStay
  <2>4. c = d /\ ~Lose(d) => c \in journaled' /\ snapshot'[c] = snapshot[c]
    BY <1>3, <2>0 DEF Step, DryRun, Blocked, RecordBefore, OpenTmp, FillTmp, SwapTmp, LookDst,
       TrashDst, CheckMove, RenameSrc, Delete, RunFails, Abandon, Commit
  <2> QED
    BY <2>1, <2>2, <2>3, <2>4
<1>4. CASE Exempt(x)
  <2>1. PICK c \in Calls :
          /\ replaced[c] = x
          /\ pc[c] = "lost" \/ Raced(c) \/ (req[c].tool = "write" /\ Contended(c))
    BY <1>4 DEF Exempt
  <2>2. Raced(c) => Raced(c)'
    BY RacesStay
  <2>3. Contended(c) => Contended(c)'
    BY RacesStay
  <2>4. pc[c] = "lost" => pc'[c] = "lost"
    <3>1. CASE c # d
      BY <3>1, OthersStay
    <3>2. c = d /\ pc[c] = "lost" => FALSE
      BY DEF Step, DryRun, Blocked, RecordBefore, OpenTmp, FillTmp, SwapTmp, LookDst, TrashDst,
         CheckMove, RenameSrc, Delete, RunFails, Abandon, Commit, Lose, Active, AtWork, LocalInv
    <3> QED
      BY <3>1, <3>2
  <2> QED
    BY <1>0, <1>2, <2>1, <2>2, <2>3, <2>4 DEF Accounted, Exempt
<1> QED
  BY <1>1, <1>3, <1>4 DEF Accounted

\* What the journal has of the contents is accounted for.
LEMMA StepSnap ==
  ASSUME IInv, UInv, SnapInv, NEW d \in Calls, Step(d)
  PROVE  SnapInv'
<1> USE DEF IInv, UInv, TypeOK, disk, Goto
<1> SUFFICES ASSUME NEW x \in Contents \ Large, NEW c \in Calls, snapshot'[c].content = x
             PROVE  Accounted(x)'
  BY DEF SnapInv
<1>1. CASE snapshot'[c] = snapshot[c]
  BY <1>1, AccountsStay DEF SnapInv
<1>2. CASE snapshot'[c] # snapshot[c]
  <2>1. c = d /\ DryRun(d)
    BY <1>2, OthersStay DEF Step, Blocked, RecordBefore, OpenTmp, FillTmp, SwapTmp, LookDst,
       TrashDst, CheckMove, RenameSrc, Delete, RunFails, Abandon, Commit, Lose
  <2>2. x \in {ContentAt(req[c].path), None}
    BY <2>1 DEF DryRun, Snapshot
  <2>3. x # None
    BY FileToolsAssumption DEF Contents, None
  <2>4. Accounted(x)
    BY <2>2, <2>3, Shapes DEF OnDisk, Accounted
  <2> QED
    BY <2>4, AccountsStay
<1> QED
  BY <1>1, <1>2

\* The invariant holds in every state, if no thread that writes outlives its call.
LEMMA UInvariance ==
  ASSUME NoLateWriter
  PROVE  Spec => [](IInv /\ UInv /\ SnapInv)
<1>1. Init => UInv /\ SnapInv
  <2> SUFFICES ASSUME Init PROVE UInv /\ SnapInv
    OBVIOUS
  <2>0. None \notin Calls /\ None \notin Contents
    BY FileToolsAssumption DEF None, Contents
  <2>1. LocalInv /\ SerialInv /\ TrashInv /\ TakenInv /\ RowInv /\ MoveInv /\ BeforeInv
    BY <2>0 DEF Init, LocalInv, SerialInv, TrashInv, TakenInv, RowInv, MoveInv, BeforeInv,
                Active, Nothing, AtWork, Writing
  <2>2. SnapInv
    BY <2>0 DEF Init, SnapInv, Nothing
  <2> QED
    BY <2>1, <2>2 DEF UInv
<1>2. IInv /\ UInv /\ SnapInv /\ [Next]_vars => UInv' /\ SnapInv'
  <2> SUFFICES ASSUME IInv, UInv, SnapInv, [Next]_vars PROVE UInv' /\ SnapInv'
    OBVIOUS
  <2>1. CASE UNCHANGED vars
    <3>1. UNCHANGED <<files, tmp, data, trash, pc, holder, req, handle, snapshot, journaled, replaced>>
      BY <2>1 DEF vars
    <3>2. LocalInv' /\ SerialInv' /\ TrashInv' /\ TakenInv'
      BY <3>1 DEF UInv, LocalInv, SerialInv, TrashInv, TakenInv, Active
    <3>3. BeforeInv' /\ RowInv' /\ MoveInv'
      BY <3>1 DEF UInv, BeforeInv, RowInv, MoveInv, Contended, Raced, Meets, Outlived, ContentAt
    <3>4. SnapInv'
      BY <3>1 DEF SnapInv, Accounted, OnDisk, Exempt, Contended, Raced, Meets, Outlived, ContentAt
    <3> QED
      BY <3>2, <3>3, <3>4 DEF UInv
  <2>2. ASSUME NEW d \in Calls, Step(d) PROVE UInv' /\ SnapInv'
    BY <2>2, StepLocal, StepTrash, StepBefore, StepRow, StepMove, StepSnap DEF UInv
  <2> QED
    BY <2>1, <2>2, StepOfACall
<1> QED
  BY <1>1, <1>2, InitIInv, StepIInv, PTL DEF Spec

\* For any number of calls, runs and paths, moves and deletions that outlive their call
\* included: what a call took away from its path its journal row accounts for.
THEOREM RowsAreTrue == ASSUME NoLateWriter PROVE Spec => []ReplacedIsJournaled
<1>1. IInv /\ UInv => ReplacedIsJournaled
  <2> SUFFICES ASSUME IInv, UInv, NEW c \in journaled, replaced[c] # None
               PROVE  \/ /\ snapshot[c].existed
                         /\ \/ replaced[c] \in Large
                            \/ snapshot[c].content = replaced[c]
                            \/ trash[c] # None /\ data[trash[c]] = replaced[c]
                      \/ Contended(c)
    BY DEF ReplacedIsJournaled
  <2> QED
    BY DEF UInv, RowInv, IInv, TypeOK
<1> QED
  BY <1>1, UInvariance, PTL

(***************************************************************************)
(* No step of any call, in any order with those of the others, makes a     *)
(* content untraceable that could be found, but for what NothingIsLost     *)
(* names, as long as no thread that writes outlives its call.              *)
(***************************************************************************)
THEOREM TracesStay == ASSUME NoLateWriter PROVE Spec => NothingIsLost
<1> DEFINE Traced ==
             \A x \in Contents \ Large :
               Kept(x) => \/ Kept(x)'
                          \/ \E c \in Calls :
                               /\ replaced'[c] = x
                               /\ \/ pc'[c] = "lost"
                                  \/ Raced(c)'
                                  \/ req[c].tool = "write" /\ Contended(c)'
<1>1. ASSUME IInv, UInv, SnapInv, NEW d \in Calls, Step(d) PROVE Traced
  <2> SUFFICES ASSUME NEW x \in Contents \ Large, Kept(x) PROVE Kept(x)' \/ Exempt(x)'
    BY <1>1, RequestsStay, StepIsNext DEF Exempt
  <2>1. Accounted(x)
    BY <1>1 DEF Kept, Accounted, OnDisk, SnapInv, IInv, TypeOK
  <2>2. Accounted(x)'
    BY <1>1, <2>1, AccountsStay
  <2> QED
    BY <2>2 DEF Accounted, OnDisk, Kept
<1>2. IInv /\ UInv /\ SnapInv /\ [Next]_vars => [Traced]_vars
  BY <1>1, StepOfACall
<1> QED
  BY <1>2, UInvariance, PTL DEF NothingIsLost, Spec

=============================================================================
