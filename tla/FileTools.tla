------------------------------ MODULE FileTools ------------------------------
(***************************************************************************)
(* The file tools: fs.write_file, fs.move and fs.delete, with the trash of *)
(* ToolIo and the before rows of the journal.                              *)
(*                                                                         *)
(* ToolRuntime says when a call is rehearsed, journaled, run and committed;*)
(* here it is said what the calls do to the disk, one worker-thread        *)
(* operation of ToolIo at a time.  The disk maps paths to inodes and       *)
(* inodes to contents, as rename moves the one and write changes the other.*)
(* A content is named by where it comes from: the path it was found at, or *)
(* the call that wrote it.  Directories are left out: every path holds a   *)
(* file or nothing.                                                        *)
(***************************************************************************)
EXTENDS Naturals, FiniteSets

CONSTANTS
  Paths,
  Calls,
  RunOf,     \* the run of each call
  ToolsOf,   \* the tools each call may be for
  Large,     \* contents of more than _READ_CAP bytes
  Late       \* calls whose worker thread may outlive them

None == "none"

Inodes == Paths \cup Calls
Contents == Paths \cup Calls
Empty == "empty"   \* a file opened for writing, its content not yet there

ASSUME FileToolsAssumption ==
  /\ Paths \cap Calls = {}
  /\ {None, Empty} \cap (Paths \cup Calls) = {}
  /\ DOMAIN RunOf = Calls
  /\ ToolsOf \in [Calls -> SUBSET {"write", "move", "delete"}]
  /\ Large \subseteq Contents
  /\ Late \subseteq Calls

VARIABLES
  files,     \* the inode at each path
  tmp,       \* the inode at each path's .orca-tmp
  data,      \* the content of each inode
  trash,     \* the inode in the trash folder of each call
  pc,
  holder,    \* the call that holds the write lock of the database
  req,
  handle,    \* the inode a write has open
  snapshot,  \* before_snapshot of the dry_run
  journaled, \* calls whose snapshot is in the journal
  replaced   \* the content the call took away from its path

vars == <<files, tmp, data, trash, pc, holder, req, handle, snapshot, journaled, replaced>>
disk == <<files, tmp, data, trash>>

\* path is where the call leaves something or takes it away; only a move has
\* another source and looks at overwrite.
Requests ==
  {r \in [tool : {"write", "move", "delete"}, path : Paths, src : Paths, overwrite : BOOLEAN] :
     r.tool = "move" \/ (r.src = r.path /\ ~r.overwrite)}

Snapshots == [existed : BOOLEAN, content : Contents \cup {Empty, None}]

Nothing == [existed |-> FALSE, content |-> None]

\* Where a call is once journaled, but for its commit.
AtWork == {"open", "fill", "swap", "look", "trash", "check", "rename", "remove"}

Init ==
  /\ \E there \in SUBSET Paths : files = [p \in Paths |-> IF p \in there THEN p ELSE None]
  /\ tmp = [p \in Paths |-> None]
  /\ data = [i \in Inodes |-> i]
  /\ trash = [c \in Calls |-> None]
  /\ pc = [c \in Calls |-> "idle"]
  /\ holder = None
  /\ req \in {f \in [Calls -> Requests] : \A c \in Calls : f[c].tool \in ToolsOf[c]}
  /\ handle = [c \in Calls |-> None]
  /\ snapshot = [c \in Calls |-> Nothing]
  /\ journaled = {}
  /\ replaced = [c \in Calls |-> None]

\* What is at a path, seen through its inode.
ContentAt(p) == IF files[p] = None THEN None ELSE data[files[p]]

Goto(c, from, to) == pc[c] = from /\ pc' = [pc EXCEPT ![c] = to]

\* What follows an operation of a worker thread: nothing, if its call is over.
After(c, next) == IF holder = c THEN next ELSE "outlived"

\* Has the call begun, and not ended for its run?
Active(c) == pc[c] = "journal" \/ holder = c

-----------------------------------------------------------------------------
(* Before the run *)

\* What dry_run says was there: fs.write_file keeps the content unless it is
\* too large, the other two trust the trash.
Snapshot(r) ==
  [existed |-> files[r.path] # None,
   content |-> IF r.tool = "write" /\ ContentAt(r.path) \notin Large
               THEN ContentAt(r.path) ELSE None]

\* The call is rehearsed.  Calls of one run wait for each other, and may follow
\* one that failed, which the runner would not invoke; those of others may be
\* anywhere.
DryRun(c) ==
  /\ \A d \in Calls : RunOf[d] = RunOf[c] => ~Active(d)
  /\ Goto(c, "idle", "journal")
  /\ snapshot' = [snapshot EXCEPT ![c] = Snapshot(req[c])]
  /\ UNCHANGED <<disk, holder, req, handle, journaled, replaced>>

\* The file cannot be read, or the write lock of the database is not to be had:
\* execution is blocked.
Blocked(c) ==
  /\ pc[c] \in {"idle", "journal"}
  /\ pc' = [pc EXCEPT ![c] = "failed"]
  /\ UNCHANGED <<disk, holder, req, handle, snapshot, journaled, replaced>>

\* journal.record_before; a large payload is spilled to a file of its own.  From
\* here to its end the call holds the one write lock of the database.
RecordBefore(c) ==
  /\ holder = None
  /\ holder' = c
  /\ Goto(c, "journal",
          CASE req[c].tool = "write" -> "open"
            [] req[c].tool = "move" -> "look"
            [] OTHER -> "remove")
  /\ journaled' = journaled \cup {c}
  /\ UNCHANGED <<disk, req, handle, snapshot, replaced>>

-----------------------------------------------------------------------------
(* fs.write_file: _write_bytes_atomic_sync *)

\* Slip: the file itself is opened.
OpenInPlace(c) ==
  /\ Goto(c, "open", "fill")
  /\ LET inode == IF files[req[c].path] = None THEN c ELSE files[req[c].path] IN
     /\ handle' = [handle EXCEPT ![c] = inode]
     /\ tmp' = [tmp EXCEPT ![req[c].path] = inode]
     /\ data' = [data EXCEPT ![inode] = Empty]
  /\ UNCHANGED <<files, trash, holder, req, snapshot, journaled, replaced>>

\* open("wb"): a temporary file of that name, left over or another call's, is
\* truncated and shared.
OpenTmp(c) ==
  /\ Goto(c, "open", "fill")
  /\ LET inode == IF tmp[req[c].path] = None THEN c ELSE tmp[req[c].path] IN
     /\ handle' = [handle EXCEPT ![c] = inode]
     /\ tmp' = [tmp EXCEPT ![req[c].path] = inode]
     /\ data' = [data EXCEPT ![inode] = Empty]
  /\ UNCHANGED <<files, trash, holder, req, snapshot, journaled, replaced>>

\* write and flush, wherever the inode is by now.
FillTmp(c) ==
  /\ Goto(c, "fill", "swap")
  /\ data' = [data EXCEPT ![handle[c]] = c]
  /\ UNCHANGED <<files, tmp, trash, holder, req, handle, snapshot, journaled, replaced>>

\* tmp.replace(path), which fails if another call has moved tmp away.
SwapTmp(c) ==
  LET p == req[c].path IN
  /\ Goto(c, "swap", After(c, "commit"))
  /\ IF tmp[p] = None
     THEN UNCHANGED <<files, tmp, replaced>>
     ELSE /\ files' = [files EXCEPT ![p] = tmp[p]]
          /\ tmp' = [tmp EXCEPT ![p] = None]
          /\ replaced' = [replaced EXCEPT ![c] = ContentAt(p)]
  /\ UNCHANGED <<data, trash, holder, req, handle, snapshot, journaled>>

-----------------------------------------------------------------------------
(* fs.move and fs.delete *)

\* Slip: rename takes care of an existing destination.
LookNever(c) ==
  /\ Goto(c, "look", "check")
  /\ UNCHANGED <<disk, holder, req, handle, snapshot, journaled, replaced>>

\* dst_existed: only an overwritten destination goes to the trash.
LookDst(c) ==
  /\ Goto(c, "look",
          IF files[req[c].path] # None /\ req[c].overwrite THEN "trash" ELSE "check")
  /\ UNCHANGED <<disk, holder, req, handle, snapshot, journaled, replaced>>

\* Slip: what is deleted is unlinked.
Unlink(c, to) ==
  LET p == req[c].path IN
  IF files[p] = None
  THEN pc' = [pc EXCEPT ![c] = After(c, "commit")] /\ UNCHANGED <<files, trash, replaced>>
  ELSE /\ pc' = [pc EXCEPT ![c] = After(c, to)]
       /\ files' = [files EXCEPT ![p] = None]
       /\ replaced' = [replaced EXCEPT ![c] = ContentAt(p)]
       /\ UNCHANGED trash

\* move_to_trash, into the folder of this call; nothing there is an error.
ToTrash(c, to) ==
  LET p == req[c].path IN
  IF files[p] = None
  THEN pc' = [pc EXCEPT ![c] = After(c, "commit")] /\ UNCHANGED <<files, trash, replaced>>
  ELSE /\ pc' = [pc EXCEPT ![c] = After(c, to)]
       /\ trash' = [trash EXCEPT ![c] = files[p]]
       /\ files' = [files EXCEPT ![p] = None]
       /\ replaced' = [replaced EXCEPT ![c] = ContentAt(p)]

TrashDst(c) ==
  /\ pc[c] = "trash"
  /\ ToTrash(c, "check")
  /\ UNCHANGED <<tmp, data, holder, req, handle, snapshot, journaled>>

\* _move_sync looks: no source, or a destination that must not be overwritten,
\* is an error, after the destination has gone to the trash.
CheckMove(c) ==
  /\ Goto(c, "check",
          IF files[req[c].src] = None \/ (files[req[c].path] # None /\ ~req[c].overwrite)
          THEN After(c, "commit") ELSE "rename")
  /\ UNCHANGED <<disk, holder, req, handle, snapshot, journaled, replaced>>

\* src.replace(dst), whatever is there by now.
RenameSrc(c) ==
  LET r == req[c] IN
  /\ Goto(c, "rename", After(c, "commit"))
  /\ IF files[r.src] = None
     THEN UNCHANGED <<files, replaced>>
     ELSE /\ files' = [files EXCEPT ![r.src] = None, ![r.path] = files[r.src]]
          /\ replaced' = [replaced EXCEPT ![c] =
               IF files[r.path] = None \/ r.src = r.path THEN @ ELSE ContentAt(r.path)]
  /\ UNCHANGED <<tmp, data, trash, holder, req, handle, snapshot, journaled>>

Delete(c) ==
  /\ pc[c] = "remove"
  /\ ToTrash(c, "commit")
  /\ UNCHANGED <<tmp, data, holder, req, handle, snapshot, journaled>>

-----------------------------------------------------------------------------
(* After the run *)

\* An operation raises, or the run is cancelled before it: the run is over; a
\* write that fails removes its temporary file, if it can.
RunFails(c) ==
  /\ pc[c] \in AtWork
  /\ pc' = [pc EXCEPT ![c] = After(c, "commit")]
  /\ \/ UNCHANGED tmp
     \/ pc[c] \in {"open", "fill", "swap"} /\ tmp' = [tmp EXCEPT ![req[c].path] = None]
  /\ UNCHANGED <<files, data, trash, holder, req, handle, snapshot, journaled, replaced>>

\* The call times out, or is cancelled, and commits its failure; the thread that
\* works for it is not stopped.
Abandon(c) ==
  /\ c \in Late
  /\ pc[c] \in AtWork \ {"look"} /\ holder = c
  /\ holder' = None
  /\ UNCHANGED <<disk, pc, req, handle, snapshot, journaled, replaced>>

\* Success or failure, the transaction commits and the row stays.
Commit(c) ==
  /\ Goto(c, "commit", "done")
  /\ holder' = None
  /\ UNCHANGED <<disk, req, handle, snapshot, journaled, replaced>>

\* The transaction is lost, and the row with it; what the call did to the disk
\* stays, a temporary file included.
Lose(c) ==
  /\ Active(c)
  /\ pc' = [pc EXCEPT ![c] = "lost"]
  /\ holder' = IF holder = c THEN None ELSE holder
  /\ journaled' = journaled \ {c}
  /\ UNCHANGED <<disk, req, handle, snapshot, replaced>>

Next ==
  \E c \in Calls :
    \/ DryRun(c) \/ Blocked(c) \/ RecordBefore(c)
    \/ OpenTmp(c) \/ FillTmp(c) \/ SwapTmp(c)
    \/ LookDst(c) \/ TrashDst(c) \/ CheckMove(c) \/ RenameSrc(c) \/ Delete(c)
    \/ RunFails(c) \/ Abandon(c) \/ Commit(c) \/ Lose(c)

Spec == Init /\ [][Next]_vars

-----------------------------------------------------------------------------

TypeOK ==
  /\ files \in [Paths -> Inodes \cup {None}]
  /\ tmp \in [Paths -> Inodes \cup {None}]
  /\ data \in [Inodes -> Contents \cup {Empty}]
  /\ trash \in [Calls -> Inodes \cup {None}]
  /\ pc \in [Calls -> {"idle", "journal", "failed", "commit", "done", "outlived", "lost"} \cup AtWork]
  /\ holder \in Calls \cup {None}
  /\ req \in [Calls -> Requests]
  /\ handle \in [Calls -> Inodes \cup {None}]
  /\ snapshot \in [Calls -> Snapshots]
  /\ journaled \subseteq Calls
  /\ replaced \in [Calls -> Contents \cup {Empty, None}]

\* x can be found: in a file, in the trash, or in a journal row.
Kept(x) ==
  \/ \E p \in Paths : ContentAt(p) = x
  \/ \E c \in Calls : trash[c] # None /\ data[trash[c]] = x
  \/ \E c \in journaled : snapshot[c].content = x

\* Did the call's thread go on after its end?
Outlived(c) == pc[c] = "outlived" \/ (pc[c] \in AtWork /\ holder # c)

\* d has been rehearsed and is about the path of c.
Meets(c, d) == pc[d] # "idle" /\ req[c].path \in {req[d].path, req[d].src}

\* The lock did not keep them apart.
Raced(c) == \E d \in Calls \ {c} : Meets(c, d) /\ (Outlived(c) \/ Outlived(d))

\* Another call may have come between the rehearsal of c and its run.
Contended(c) == Raced(c) \/ \E d \in Calls : RunOf[d] # RunOf[c] /\ Meets(c, d)

(***************************************************************************)
(* Wherever a call stops, and whatever other calls do meanwhile, a content *)
(* that can be found stays so.  Exempt are what a write found too large to *)
(* keep, what only the row of a lost transaction kept, and what another    *)
(* call brought to a path between the rehearsal of a write to it, or the   *)
(* end of a call whose thread went on, and the moment the file is replaced.*)
(***************************************************************************)
NothingIsLost ==
  [][\A x \in Contents \ Large :
       Kept(x) => \/ Kept(x)'
                  \/ \E c \in Calls :
                       /\ replaced'[c] = x
                       /\ \/ pc'[c] = "lost"
                          \/ Raced(c)'
                          \/ req[c].tool = "write" /\ Contended(c)']_vars

(***************************************************************************)
(* What a call took away from its path its journal row accounts for, be it *)
(* by the content or by the trash folder of the call, and a row that says  *)
(* nothing was there is true, unless another call came in between.         *)
(***************************************************************************)
ReplacedIsJournaled ==
  \A c \in journaled :
    replaced[c] # None =>
      \/ /\ snapshot[c].existed
         /\ \/ replaced[c] \in Large
            \/ snapshot[c].content = replaced[c]
            \/ trash[c] # None /\ data[trash[c]] = replaced[c]
      \/ Contended(c)

\* Writes are atomic: whatever fails, a path never holds a file half written.
WritesAreWhole ==
  \A p \in Paths : files[p] # None => data[files[p]] # Empty

=============================================================================
