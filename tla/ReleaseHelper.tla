---------------------------- MODULE ReleaseHelper ----------------------------
(***************************************************************************)
(* dev-bin/release.sh: a tree is prepared, frozen in the index, validated, *)
(* shown to the maintainer, committed, pushed and released.  It is a shell *)
(* script over a working tree that editors, hooks and other shells change  *)
(* at any time, and it may stop at any command and be run again.           *)
(*                                                                         *)
(* A tree is the version in Cargo.toml and the two lock files, the rest of *)
(* these files and the rest of the repository, the last two as the number  *)
(* of the edit that wrote them: nobody puts back what an edit changed.     *)
(***************************************************************************)
EXTENDS Naturals, Sequences

CONSTANTS
  MaxRuns, MaxEdits, MaxCommits,   (* Bounds.                              *)
  NoTree

Trees == [version : {"old", "new"}, crate : 0 .. MaxEdits, rest : 0 .. MaxEdits]
Branches == {"publish", "other"}

ASSUME BoundsAreNat == MaxRuns \in Nat /\ MaxEdits \in Nat /\ MaxCommits \in Nat \ {0}
ASSUME NoTreeIsNone == NoTree \notin Trees

VARIABLES
  (* The repository.                                                       *)
  worktree, index,
  untracked,      (* Is there a file git does not know?                    *)
  commits,        (* Their trees and parents.                              *)
  tips,           (* The last commit of each branch.                       *)
  on,             (* The branch HEAD is on.                                *)
  edits,          (* How often others have edited a file.                  *)
  (* What cannot be undone.                                                *)
  remote,         (* The branches of origin: a commit, or 0.               *)
  release,        (* The commit released, or 0.                            *)
  pushed,         (* Commits pushed so far.                                *)
  (* The script and its variables.                                         *)
  pc, dry_run, branch, release_head, release_tree, head, runs,
  (* What was checked, what was built, and what a maintainer approved of,  *)
  (* having had the validation of it reported.                             *)
  checked, built, approved

repoVars   == <<worktree, index, untracked, commits, tips, on, edits>>
remoteVars == <<remote, release, pushed>>
frozenVars == <<dry_run, branch, release_head, release_tree, head>>
historyVars == <<checked, built, approved>>
scriptVars == <<pc, frozenVars, runs>>

vars == <<repoVars, remoteVars, scriptVars, historyVars>>

HEAD == tips[on]
HeadTree == commits[HEAD].tree

Init ==
  /\ worktree = [version |-> "old", crate |-> 0, rest |-> 0]
  /\ index = worktree
  /\ untracked = FALSE
  /\ commits = <<[tree |-> worktree, parent |-> 0]>>
  /\ tips = [b \in Branches |-> 1]
  /\ on = "publish"
  /\ edits = 0
  /\ remote = [b \in Branches |-> 0] /\ release = 0 /\ pushed = {}
  /\ pc = "exited" /\ dry_run = FALSE /\ branch = "publish" /\ runs = 0
  /\ release_head = 0 /\ release_tree = NoTree /\ head = 0
  /\ checked = NoTree /\ built = NoTree /\ approved = {}

----------------------------------------------------------------------------
(* Editors, hooks and other shells.                                        *)

Edit(part) ==
  /\ edits < MaxEdits
  /\ edits' = edits + 1
  /\ worktree' = [worktree EXCEPT ![part] = edits']
  /\ UNCHANGED <<index, untracked, commits, tips, on>>

CreateFile == untracked' = TRUE /\ UNCHANGED <<worktree, index, commits, tips, on, edits>>

StageAll == index' = worktree /\ UNCHANGED <<worktree, untracked, commits, tips, on, edits>>

(* A new branch at HEAD, with the index and the files as they are.         *)
SwitchBranch ==
  /\ on' = "other"
  /\ tips' = [tips EXCEPT !["other"] = HEAD]
  /\ UNCHANGED <<worktree, index, untracked, commits, edits>>

CommitIndex ==
  /\ Len(commits) < MaxCommits
  /\ commits' = Append(commits, [tree |-> index, parent |-> HEAD])
  /\ tips' = [tips EXCEPT ![on] = Len(commits')]
  /\ UNCHANGED <<worktree, index, untracked, on, edits>>

Others ==
  /\ \/ \E part \in {"crate", "rest"} : Edit(part)
     \/ CreateFile \/ StageAll \/ SwitchBranch \/ (index # HeadTree /\ CommitIndex)
  /\ UNCHANGED <<remoteVars, scriptVars, historyVars>>

----------------------------------------------------------------------------
(* The script.  Each step is a command, which may fail: set -e.            *)

Goto(from, to) == pc = from /\ pc' = to
Exit(from) == Goto(from, "exited")

(* A comparison: the script goes on, or says why not and exits.            *)
Test(from, to, holds) ==
  /\ pc = from
  /\ pc' = IF holds THEN to ELSE "exited"
  /\ UNCHANGED <<repoVars, remoteVars, frozenVars, runs, historyVars>>

StatusIsClean == worktree = index /\ index = HeadTree /\ ~untracked

Run ==
  /\ Goto("exited", "clean")
  /\ runs < MaxRuns /\ runs' = runs + 1
  /\ dry_run' \in BOOLEAN
  /\ branch' = on
  /\ checked' = NoTree /\ built' = NoTree
  /\ UNCHANGED <<repoVars, remoteVars, release_head, release_tree, head, approved>>

(* git status, then the two rev-parse.                                     *)
CheckClean == Test("clean", "head", StatusIsClean)

ReadHead ==
  /\ Goto("head", "tree")
  /\ release_head' = HEAD
  /\ UNCHANGED <<repoVars, remoteVars, dry_run, branch, release_tree, head, runs, historyVars>>

ReadTree ==
  /\ pc = "tree"
  /\ pc' = IF dry_run THEN "verify_before" ELSE "preconditions"
  /\ release_tree' = HeadTree
  /\ UNCHANGED <<repoVars, remoteVars, dry_run, branch, release_head, head, runs, historyVars>>

(* The changelog's date, origin/main, and that there is no such release.   *)
CheckPreconditions ==
  /\ Exit("preconditions") \/ (release = 0 /\ Goto("preconditions", "version"))
  /\ UNCHANGED <<repoVars, remoteVars, frozenVars, runs, historyVars>>

(* perl and cargo check.                                                   *)
SetVersion ==
  /\ Goto("version", "index") \/ Exit("version")
  /\ worktree' = [worktree EXCEPT !.version = "new"]
  /\ UNCHANGED <<index, untracked, commits, tips, on, edits>>
  /\ UNCHANGED <<remoteVars, frozenVars, runs, historyVars>>

CheckIndex == Test("index", "add", index = HeadTree)

AddVersionFiles ==
  /\ Goto("add", "freeze")
  /\ index' = [index EXCEPT !.version = worktree.version, !.crate = worktree.crate]
  /\ UNCHANGED <<worktree, untracked, commits, tips, on, edits>>
  /\ UNCHANGED <<remoteVars, frozenVars, runs, historyVars>>

WriteTree ==
  /\ Goto("freeze", "verify_before")
  /\ release_tree' = index
  /\ UNCHANGED <<repoVars, remoteVars, dry_run, branch, release_head, head, runs, historyVars>>

(* verify_release_tree compares branch, HEAD and index first, ...          *)
VerifyIndex(from, to) ==
  Test(from, to, on = branch /\ HEAD = release_head /\ index = release_tree)

(* ... and then the files with the index.                                  *)
VerifyFiles(from, to) == Test(from, to, worktree = index /\ ~untracked)

VerifyBefore ==
  \/ VerifyIndex("verify_before", "files_before")
  \/ VerifyFiles("files_before", "check")

VerifyAfter ==
  \/ VerifyIndex("verify_after", "files_after")
  \/ VerifyFiles("files_after", "answer")

VerifyConfirmed ==
  \/ VerifyIndex("verify_confirmed", "files_confirmed")
  \/ VerifyFiles("files_confirmed", "commit")

(* scripts/check and the first of cargo publish, of what is there to see.  *)
Check ==
  /\ Goto("check", "build") \/ Exit("check")
  /\ checked' = worktree
  /\ UNCHANGED <<repoVars, remoteVars, frozenVars, runs, built, approved>>

Build ==
  /\ Goto("build", "verify_after") \/ Exit("build")
  /\ built' = worktree
  /\ UNCHANGED <<repoVars, remoteVars, frozenVars, runs, checked, approved>>

(* Mutant: a dry run goes on to the question.                              *)
AskAlways ==
  /\ \/ Exit("answer") /\ UNCHANGED approved
     \/ /\ Goto("answer", "verify_confirmed")
        /\ approved' = approved \cup ({checked} \cap {built})
  /\ UNCHANGED <<repoVars, remoteVars, frozenVars, runs, checked, built>>

(* A dry run is complete; else the maintainer answers.                     *)
Ask ==
  /\ \/ Exit("answer") /\ UNCHANGED approved
     \/ /\ ~dry_run
        /\ Goto("answer", "verify_confirmed")
        /\ approved' = approved \cup ({checked} \cap {built})
  /\ UNCHANGED <<repoVars, remoteVars, frozenVars, runs, checked, built>>

(* git commit, unless HEAD has the versions already.                       *)
Commit ==
  /\ \/ index = HeadTree /\ Goto("commit", "resolve") /\ UNCHANGED repoVars
     \/ index # HeadTree /\ Goto("commit", "resolve") /\ CommitIndex
     \/ index # HeadTree /\ Exit("commit") /\ UNCHANGED repoVars
  /\ UNCHANGED <<remoteVars, frozenVars, runs, historyVars>>

ResolveHead ==
  /\ Goto("resolve", "verify_commit")
  /\ head' = HEAD
  /\ UNCHANGED <<repoVars, remoteVars, dry_run, branch, release_head, release_tree, runs,
                 historyVars>>

(* Mutant: the tree of the commit is not compared.                         *)
VerifyStatusOnly == Test("verify_commit", "push", on = branch /\ StatusIsClean)

VerifyCommit ==
  Test("verify_commit", "push",
       on = branch /\ commits[head].tree = release_tree /\ StatusIsClean)

(* Mutant: the script goes on after a push that failed.                    *)
PushOrNot ==
  /\ Goto("push", "create")
  /\ \/ /\ remote' = [remote EXCEPT ![branch] = head]
        /\ pushed' = pushed \cup {head}
     \/ UNCHANGED <<remote, pushed>>
  /\ UNCHANGED <<repoVars, release, frozenVars, runs, historyVars>>

(* "$head:refs/heads/$branch".  It may fail, and the success of it be lost.  *)
Push ==
  /\ \/ /\ Goto("push", "create") \/ Exit("push")
        /\ remote' = [remote EXCEPT ![branch] = head]
        /\ pushed' = pushed \cup {head}
     \/ Exit("push") /\ UNCHANGED <<remote, pushed>>
  /\ UNCHANGED <<repoVars, release, frozenVars, runs, historyVars>>

(* The branch's configuration, then gh release create.                     *)
CreateRelease ==
  /\ Exit("create")
  /\ \/ release = 0 /\ release' = head
     \/ UNCHANGED release
  /\ UNCHANGED <<repoVars, remote, pushed, frozenVars, runs, historyVars>>

Script ==
  \/ Run \/ CheckClean \/ ReadHead \/ ReadTree
  \/ CheckPreconditions \/ SetVersion \/ CheckIndex \/ AddVersionFiles \/ WriteTree
  \/ VerifyBefore \/ Check \/ Build \/ VerifyAfter \/ Ask
  \/ VerifyConfirmed \/ Commit \/ ResolveHead \/ VerifyCommit
  \/ Push \/ CreateRelease

Next == Others \/ Script

Spec == Init /\ [][Next]_vars

----------------------------------------------------------------------------

Labels ==
  {"exited", "clean", "head", "tree", "preconditions", "version", "index", "add", "freeze",
   "verify_before", "files_before", "check", "build", "verify_after", "files_after", "answer",
   "verify_confirmed", "files_confirmed", "commit", "resolve", "verify_commit", "push", "create"}

CommitIds == 1 .. Len(commits)

(* Every variable keeps its type, and every branch is at a commit.         *)
TypeOK ==
  /\ worktree \in Trees /\ index \in Trees /\ untracked \in BOOLEAN
  /\ commits \in Seq([tree : Trees, parent : Nat])
  /\ tips \in [Branches -> CommitIds] /\ on \in Branches
  /\ edits \in 0 .. MaxEdits
  /\ remote \in [Branches -> CommitIds \cup {0}]
  /\ release \in CommitIds \cup {0} /\ pushed \subseteq CommitIds
  /\ pc \in Labels /\ dry_run \in BOOLEAN /\ branch \in Branches /\ runs \in Nat
  /\ release_head \in CommitIds \cup {0} /\ release_tree \in Trees \cup {NoTree}
  /\ head \in CommitIds \cup {0}
  /\ checked \in Trees \cup {NoTree} /\ built \in Trees \cup {NoTree}
  /\ approved \subseteq Trees

(* What origin and the release hold is a tree that one run of the script   *)
(* has checked and built, the same for both, and that the maintainer was   *)
(* then asked about: whatever others edit, stage, commit or switch to at   *)
(* any moment, and however often the script failed and was run again.      *)
PublishedAsValidated ==
  /\ \A b \in Branches : remote[b] # 0 => commits[remote[b]].tree \in approved
  /\ release # 0 => commits[release].tree \in approved

(* A release is made of a commit that was pushed before.                   *)
ReleaseWasPushed == release # 0 => release \in pushed

(* A dry run publishes nothing.                                            *)
DryRunPublishesNothing == [][dry_run => UNCHANGED remoteVars]_vars

----------------------------------------------------------------------------
(* Why: what others change is never put back, so that trees only grow.     *)

Precedes(old, new) ==
  /\ old.version = "new" => new.version = "new"
  /\ old.crate <= new.crate
  /\ old.rest <= new.rest

NotYetBuilt == {"files_before", "check", "build"}
Validated == {"verify_after", "files_after", "answer", "verify_confirmed"}
Approved == {"files_confirmed", "commit", "resolve", "verify_commit", "push", "create"}

(* The index comes from the files, and no file is newer than the edits.    *)
TreesGrow ==
  /\ Precedes(index, worktree)
  /\ worktree.crate <= edits /\ worktree.rest <= edits

(* The release tree was in the index when it was verified first.  What was *)
(* checked and built is of no earlier time, but may be of a later one ...  *)
FrozenInv ==
  /\ pc \in NotYetBuilt \cup Validated =>
       release_tree \in Trees /\ Precedes(release_tree, index)
  /\ pc \in {"build"} \cup Validated =>
       checked \in Trees /\ Precedes(release_tree, checked) /\ Precedes(checked, worktree)
  /\ pc \in Validated =>
       built \in Trees /\ Precedes(release_tree, built) /\ Precedes(built, worktree)

(* ... though not later than the index, once the files agreed with it: if  *)
(* that still is the release tree, then it always was.                     *)
ApprovedInv ==
  /\ pc \in {"answer", "verify_confirmed"} =>
       Precedes(checked, index) /\ Precedes(built, index)
  /\ pc = "verify_confirmed" /\ checked = built => checked \in approved
  /\ pc \in Approved => release_tree \in approved
  /\ pc \in {"verify_commit", "push", "create"} => head \in CommitIds
  /\ pc \in {"push", "create"} => commits[head].tree = release_tree
  /\ pc = "create" => head \in pushed

(* Only a run that is no dry run gets past the question.                   *)
AnsweredInv == pc \in {"verify_confirmed"} \cup Approved => ~dry_run

(* What every step keeps.                                                  *)
IInv ==
  /\ TypeOK /\ TreesGrow /\ FrozenInv /\ ApprovedInv
  /\ PublishedAsValidated /\ ReleaseWasPushed

=============================================================================
