--------------------------- MODULE DatabaseFiles ---------------------------
(***************************************************************************)
(* The file system as src/cache.rs sees it, and identity_for_path.  The    *)
(* files are external: other programs replace, rewrite, delete and move    *)
(* MMDB files while lookups run.                                           *)
(*                                                                         *)
(* Every write to a file gets a change time (ctime) of its own: the number *)
(* of the write in the history `writes'.  This is the environment          *)
(* assumption that makes an identity usable at all: docs/api.md states it  *)
(* for Unix, and elsewhere only for atomic replacement, which is what      *)
(* InPlaceRewrites = FALSE stands for.  The modification time can be put   *)
(* back by whoever writes, so it adds nothing in the worst case and is     *)
(* left out; so is the volume number, which goes with the file number.     *)
(***************************************************************************)
EXTENDS Integers, Sequences, FiniteSets

CONSTANTS
  Paths,             (* Canonical path names.                              *)
  FileIds,           (* Inode numbers; a free number can be used again.    *)
  Contents,          (* Whole-file contents.                               *)
  SizeOf,            (* The length in bytes of each content.               *)
  NoFile,            (* "No regular file is here."                         *)
  InPlaceRewrites,   (* May files be rewritten in place (Unix)?            *)
  MaxWrites          (* Bounds the history.                                *)

ASSUME SizesAreNatural == SizeOf \in [Contents -> Nat]
ASSUME NoFileIsNoFileId == NoFile \notin FileIds
ASSUME InPlaceRewritesIsBoolean == InPlaceRewrites \in BOOLEAN
ASSUME MaxWritesIsNatural == MaxWrites \in Nat

VARIABLES
  writes,   (* Every write so far; its index is the change time it set.    *)
  disk,     (* The last write to each file number, 0 before the first.     *)
  dir,      (* The file number under each path, or NoFile.                 *)
  target    (* The path each path resolves to: itself, unless it became a  *)
            (* way through a symbolic link.                                *)

fileVars == <<writes, disk, dir, target>>

Write == [at : Paths, file_id : FileIds, content : Contents]

Identity == [canonical_path : Paths, size : Nat, changed_ns : Nat, file_id : FileIds]

(* Path::canonicalize succeeds on paths that lead to something.            *)
Canonicalize(p) == target[p]

IsFile(p) == dir[target[p]] # NoFile

FileIdAt(p) == dir[target[p]]

ContentOf(f) == writes[disk[f]].content

IdentityForPath(p) ==
  [canonical_path |-> p,
   size           |-> SizeOf[ContentOf(FileIdAt(p))],
   changed_ns     |-> disk[FileIdAt(p)],
   file_id        |-> FileIdAt(p)]

FilesTypeOK ==
  /\ writes \in Seq(Write)
  /\ Len(writes) <= MaxWrites
  /\ disk \in [FileIds -> 0 .. Len(writes)]
  /\ dir \in [Paths -> FileIds \cup {NoFile}]
  /\ target \in [Paths -> Paths]

----------------------------------------------------------------------------

FilesInit ==
  /\ writes = <<>>
  /\ disk = [f \in FileIds |-> 0]
  /\ dir = [p \in Paths |-> NoFile]
  /\ target = [p \in Paths |-> p]

WriteFile(p, f, c) ==
  /\ Len(writes) < MaxWrites
  /\ writes' = Append(writes, [at |-> p, file_id |-> f, content |-> c])
  /\ disk' = [disk EXCEPT ![f] = Len(writes) + 1]

(* A new file is written aside and renamed over p, or p is created.  Its   *)
(* number is one that no path and no open handle holds.                    *)
ReplaceFile(p, c, open) ==
  /\ target[p] = p
  /\ \E f \in FileIds \ open :
       /\ \A q \in Paths : dir[q] # f
       /\ WriteFile(p, f, c)
       /\ dir' = [dir EXCEPT ![p] = f]
  /\ UNCHANGED target

(* The file under p is overwritten: readers that have it open see it.      *)
RewriteFile(p, c) ==
  /\ InPlaceRewrites
  /\ target[p] = p
  /\ dir[p] # NoFile
  /\ WriteFile(p, dir[p], c)
  /\ UNCHANGED <<dir, target>>

DeleteFile(p) ==
  /\ target[p] = p
  /\ dir[p] # NoFile
  /\ dir' = [dir EXCEPT ![p] = NoFile]
  /\ UNCHANGED <<writes, disk, target>>

(* A directory of p becomes a symbolic link, and p now leads to q.  It is  *)
(* assumed not to be moved back: see the README on swapped directories.    *)
RelinkPath(p, q) ==
  /\ p # q
  /\ target[q] = q
  /\ \A r \in Paths : target[r] = p => r = p
  /\ target[p] = p
  /\ target' = [target EXCEPT ![p] = q]
  /\ UNCHANGED <<writes, disk, dir>>

FilesChange(open) ==
  \/ \E p \in Paths, c \in Contents : ReplaceFile(p, c, open) \/ RewriteFile(p, c)
  \/ \E p \in Paths : DeleteFile(p)
  \/ \E p, q \in Paths : RelinkPath(p, q)

=============================================================================
