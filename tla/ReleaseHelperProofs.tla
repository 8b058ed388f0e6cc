------------------------- MODULE ReleaseHelperProofs -------------------------
(***************************************************************************)
(* That nothing is published but what was validated and approved of, for   *)
(* any number of runs, edits and commits.                                  *)
(***************************************************************************)
EXTENDS ReleaseHelper, SequenceTheorems, TLAPS

(* Trees are partly ordered.                                               *)
LEMMA PrecedesIsOrder ==
  ASSUME NEW t \in Trees, NEW u \in Trees, NEW v \in Trees
  PROVE  /\ Precedes(t, t)
         /\ Precedes(t, u) /\ Precedes(u, v) => Precedes(t, v)
         /\ Precedes(t, u) /\ Precedes(u, t) => t = u
  BY BoundsAreNat DEF Precedes, Trees

(* The initial state satisfies IInv.                                       *)
LEMMA InitIInv == Init => IInv
<1> SUFFICES ASSUME Init PROVE IInv
  OBVIOUS
<1>1. worktree \in Trees /\ index = worktree /\ Precedes(index, worktree)
  BY BoundsAreNat DEF Init, Trees, Precedes
<1>2. commits \in Seq([tree : Trees, parent : Nat]) /\ Len(commits) = 1
  BY <1>1 DEF Init
<1>3. TypeOK
  <2>1. CommitIds = {1}
    BY <1>2 DEF CommitIds
  <2>2. /\ tips \in [Branches -> CommitIds] /\ on \in Branches /\ branch \in Branches
        /\ remote \in [Branches -> CommitIds \cup {0}]
        /\ release \in CommitIds \cup {0} /\ pushed \subseteq CommitIds
        /\ release_head \in CommitIds \cup {0} /\ head \in CommitIds \cup {0}
    BY <2>1 DEF Init, Branches
  <2>3. pc \in Labels /\ edits \in 0 .. MaxEdits /\ runs \in Nat
    BY BoundsAreNat DEF Init, Labels
  <2>4. QED
    BY <1>1, <1>2, <2>2, <2>3 DEF Init, TypeOK
<1>4. TreesGrow
  BY <1>1 DEF Init, TreesGrow
<1>5. FrozenInv /\ ApprovedInv /\ PublishedAsValidated /\ ReleaseWasPushed
  BY DEF Init, FrozenInv, ApprovedInv, PublishedAsValidated, ReleaseWasPushed, NotYetBuilt,
         Validated, Approved
<1>6. QED
  BY <1>3, <1>4, <1>5 DEF IInv

(* HEAD is a commit, and has a tree.                                       *)
LEMMA HeadIsCommit ==
  ASSUME TypeOK
  PROVE  HEAD \in CommitIds /\ HeadTree \in Trees
<1>1. HEAD \in CommitIds
  BY DEF TypeOK, HEAD
<1>2. commits[HEAD] \in [tree : Trees, parent : Nat]
  BY <1>1, ElementOfSeq DEF TypeOK, CommitIds
<1>3. QED
  BY <1>1, <1>2 DEF HeadTree

(* A new commit is of the index, and leaves the others as they are.        *)
LEMMA CommitAppends ==
  ASSUME TypeOK, CommitIndex
  PROVE  /\ commits' \in Seq([tree : Trees, parent : Nat])
         /\ CommitIds \subseteq CommitIds'
         /\ \A c \in CommitIds : commits'[c] = commits[c]
         /\ tips' \in [Branches -> CommitIds']
<1>1. [tree |-> index, parent |-> HEAD] \in [tree : Trees, parent : Nat]
  BY DEF TypeOK, HEAD, CommitIds
<1>2. /\ commits' \in Seq([tree : Trees, parent : Nat])
      /\ Len(commits') = Len(commits) + 1
      /\ \A c \in CommitIds : commits'[c] = commits[c]
  BY <1>1, AppendProperties DEF TypeOK, CommitIndex, CommitIds
<1>3. Len(commits) \in Nat
  BY DEF TypeOK
<1>4. CommitIds \subseteq CommitIds' /\ Len(commits') \in CommitIds'
  BY <1>2, <1>3 DEF CommitIds
<1>5. tips' \in [Branches -> CommitIds']
  BY <1>4 DEF TypeOK, CommitIndex
<1>6. QED
  BY <1>2, <1>4, <1>5

(* What a change of the repository has to do to keep IInv.                 *)
Grows ==
  /\ worktree' \in Trees /\ index' \in Trees
  /\ untracked' \in BOOLEAN
  /\ edits' \in 0 .. MaxEdits
  /\ on' \in Branches
  /\ commits' \in Seq([tree : Trees, parent : Nat])
  /\ CommitIds \subseteq CommitIds'
  /\ \A c \in CommitIds : commits'[c] = commits[c]
  /\ tips' \in [Branches -> CommitIds']
  /\ TreesGrow'
  /\ Precedes(worktree, worktree') /\ Precedes(index, index')

(* Others only let trees and commits grow.                                 *)
LEMMA OthersGrow ==
  ASSUME IInv, Others
  PROVE  Grows
<1>1. worktree \in Trees /\ index \in Trees /\ Precedes(worktree, worktree)
        /\ Precedes(index, index) /\ Precedes(index, worktree)
  BY PrecedesIsOrder DEF IInv, TypeOK, TreesGrow
<1>2. ASSUME NEW part \in {"crate", "rest"}, Edit(part)
      PROVE  Grows
  <2>1. edits \in Nat /\ edits < MaxEdits /\ edits' = edits + 1 /\ edits' \in 0 .. MaxEdits
    BY <1>2, BoundsAreNat DEF Edit, IInv, TypeOK
  <2>2. worktree' \in Trees /\ Precedes(worktree, worktree') /\ index' = index
    BY <1>1, <1>2, <2>1, BoundsAreNat DEF Edit, Trees, Precedes, IInv, TreesGrow
  <2>3. Precedes(index', worktree')
    BY <1>1, <2>2, PrecedesIsOrder
  <2>4. worktree'.crate <= edits' /\ worktree'.rest <= edits'
    BY <1>1, <1>2, <2>1 DEF Edit, Trees, IInv, TreesGrow
  <2>5. QED
    BY <1>1, <1>2, <2>1, <2>2, <2>3, <2>4
    DEF Edit, Grows, TreesGrow, IInv, TypeOK, CommitIds
<1>3. CASE CreateFile
  BY <1>1, <1>3 DEF CreateFile, Grows, TreesGrow, IInv, TypeOK, CommitIds
<1>4. CASE StageAll
  <2>1. Precedes(index', worktree')
    BY <1>1, <1>4 DEF StageAll
  <2>2. QED
    BY <1>1, <1>4, <2>1 DEF StageAll, Grows, TreesGrow, IInv, TypeOK, CommitIds
<1>5. CASE SwitchBranch
  <2>1. tips' \in [Branches -> CommitIds'] /\ on' \in Branches
    BY <1>5 DEF SwitchBranch, HEAD, IInv, TypeOK, CommitIds, Branches
  <2>2. QED
    BY <1>1, <1>5, <2>1 DEF SwitchBranch, Grows, TreesGrow, IInv, TypeOK, CommitIds
<1>6. CASE CommitIndex
  BY <1>1, <1>6, CommitAppends DEF CommitIndex, Grows, TreesGrow, IInv, TypeOK
<1>7. QED
  BY <1>2, <1>3, <1>4, <1>5, <1>6 DEF Others

(* A growing repository keeps what the script has seen of it.              *)
LEMMA GrowsIInv ==
  ASSUME IInv, Grows, UNCHANGED <<remoteVars, scriptVars, historyVars>>
  PROVE  IInv'
<1> USE DEF remoteVars, scriptVars, frozenVars, historyVars
<1>1. TypeOK'
  BY DEF Grows, IInv, TypeOK
<1>2. worktree \in Trees /\ index \in Trees /\ worktree' \in Trees /\ index' \in Trees
        /\ Precedes(worktree, worktree') /\ Precedes(index, index')
  BY DEF Grows, IInv, TypeOK
<1>3. \A t \in Trees : /\ Precedes(t, worktree) => Precedes(t, worktree')
                       /\ Precedes(t, index) => Precedes(t, index')
  BY <1>2, PrecedesIsOrder
<1>4. FrozenInv'
  BY <1>3 DEF IInv, FrozenInv
<1>5. pc \in {"answer", "verify_confirmed"} => checked \in Trees /\ built \in Trees
  BY DEF IInv, FrozenInv, Validated
<1>6. ApprovedInv'
  BY <1>3, <1>5 DEF IInv, ApprovedInv, Approved, Grows
<1>7. PublishedAsValidated' /\ ReleaseWasPushed'
  BY DEF IInv, TypeOK, PublishedAsValidated, ReleaseWasPushed, Grows
<1>8. QED
  BY <1>1, <1>4, <1>6, <1>7 DEF IInv, Grows

(* A step of the script that changes nothing published or approved.        *)
LEMMA QuietStep ==
  ASSUME IInv, UNCHANGED <<repoVars, remoteVars, head, approved>>,
         pc' \in Labels, dry_run' \in BOOLEAN, branch' \in Branches, runs' \in Nat,
         release_head' \in CommitIds \cup {0}, release_tree' \in Trees \cup {NoTree},
         checked' \in Trees \cup {NoTree}, built' \in Trees \cup {NoTree},
         FrozenInv', ApprovedInv'
  PROVE  IInv'
<1> USE DEF repoVars, remoteVars
<1>1. TypeOK'
  BY DEF IInv, TypeOK, CommitIds
<1>2. TreesGrow' /\ PublishedAsValidated' /\ ReleaseWasPushed'
  BY DEF IInv, TreesGrow, PublishedAsValidated, ReleaseWasPushed
<1>3. QED
  BY <1>1, <1>2 DEF IInv

(* The steps before the candidate is frozen and verified.                  *)
LEMMA PreparationIInv ==
  ASSUME IInv, Run \/ CheckClean \/ ReadHead \/ ReadTree \/ CheckPreconditions
                 \/ CheckIndex \/ WriteTree
  PROVE  IInv'
<1> USE DEF Goto, Exit, Test
<1>1. UNCHANGED <<repoVars, remoteVars, head, approved>>
  BY DEF Run, CheckClean, ReadHead, ReadTree, CheckPreconditions, CheckIndex, WriteTree,
         historyVars, frozenVars
<1>2. pc' \in {"exited", "clean", "head", "tree", "preconditions", "version", "add",
               "verify_before"}
  BY DEF Run, CheckClean, ReadHead, ReadTree, CheckPreconditions, CheckIndex, WriteTree
<1>3. HEAD \in CommitIds /\ HeadTree \in Trees
  BY HeadIsCommit DEF IInv
<1>4. /\ dry_run' \in BOOLEAN /\ branch' \in Branches /\ runs' \in Nat
      /\ release_head' \in CommitIds \cup {0} /\ release_tree' \in Trees \cup {NoTree}
      /\ checked' \in Trees \cup {NoTree} /\ built' \in Trees \cup {NoTree}
  BY <1>3 DEF Run, CheckClean, ReadHead, ReadTree, CheckPreconditions, CheckIndex, WriteTree,
              historyVars, frozenVars, IInv, TypeOK
<1>5. FrozenInv' /\ ApprovedInv'
  BY <1>2 DEF FrozenInv, ApprovedInv, NotYetBuilt, Validated, Approved
<1>6. QED
  BY <1>1, <1>2, <1>4, <1>5, QuietStep DEF Labels

(* The version and the index only grow, before anything is frozen.         *)
LEMMA EditingIInv ==
  ASSUME IInv, SetVersion \/ AddVersionFiles
  PROVE  IInv'
<1> USE DEF Goto, Exit, remoteVars, frozenVars, historyVars
<1>1. pc' \in {"exited", "index", "freeze"}
  BY DEF SetVersion, AddVersionFiles
<1>2. worktree' \in Trees /\ index' \in Trees
  BY DEF SetVersion, AddVersionFiles, IInv, TypeOK, Trees
<1>3. TreesGrow'
  <2>1. worktree \in Trees /\ index \in Trees /\ Precedes(index, worktree)
    BY DEF IInv, TypeOK, TreesGrow
  <2>2. CASE SetVersion
    <3>1. worktree'.crate = worktree.crate /\ worktree'.rest = worktree.rest
            /\ worktree'.version = "new" /\ index' = index /\ edits' = edits
      BY <2>1, <2>2 DEF SetVersion, Trees
    <3>2. QED
      BY <2>1, <3>1 DEF IInv, TreesGrow, Precedes
  <2>3. CASE AddVersionFiles
    <3>1. index'.crate = worktree.crate /\ index'.rest = index.rest
            /\ index'.version = worktree.version /\ worktree' = worktree /\ edits' = edits
      BY <2>1, <2>3 DEF AddVersionFiles, Trees
    <3>2. worktree.crate <= worktree.crate
      BY <2>1, BoundsAreNat DEF Trees
    <3>3. QED
      BY <2>1, <3>1, <3>2 DEF IInv, TreesGrow, Precedes
  <2>4. QED
    BY <2>2, <2>3
<1>4. TypeOK'
  BY <1>1, <1>2 DEF SetVersion, AddVersionFiles, IInv, TypeOK, CommitIds, Labels
<1>5. FrozenInv' /\ ApprovedInv'
  BY <1>1 DEF FrozenInv, ApprovedInv, NotYetBuilt, Validated, Approved
<1>6. PublishedAsValidated' /\ ReleaseWasPushed'
  BY DEF SetVersion, AddVersionFiles, IInv, PublishedAsValidated, ReleaseWasPushed
<1>7. QED
  BY <1>3, <1>4, <1>5, <1>6 DEF IInv

(* From the first verification to the answer.                              *)
LEMMA ValidationIInv ==
  ASSUME IInv, VerifyBefore \/ Check \/ Build \/ VerifyAfter
  PROVE  IInv'
<1> USE DEF Goto, Exit, Test, repoVars, remoteVars, historyVars, frozenVars
<1>1. UNCHANGED <<repoVars, remoteVars, head, approved, dry_run, branch, runs, release_head,
                  release_tree>>
  BY DEF VerifyBefore, Check, Build, VerifyAfter, VerifyIndex, VerifyFiles
<1>2. worktree \in Trees /\ index \in Trees /\ Precedes(index, worktree)
        /\ Precedes(worktree, worktree) /\ Precedes(index, index)
  BY PrecedesIsOrder DEF IInv, TypeOK, TreesGrow
<1>3. checked' \in Trees \cup {NoTree} /\ built' \in Trees \cup {NoTree}
  BY <1>2 DEF VerifyBefore, Check, Build, VerifyAfter, VerifyIndex, VerifyFiles, IInv, TypeOK
<1>4. pc' \in {"exited", "files_before", "check", "build", "verify_after", "files_after",
               "answer"}
  BY DEF VerifyBefore, Check, Build, VerifyAfter, VerifyIndex, VerifyFiles
<1>5. FrozenInv'
  <2>1. CASE VerifyBefore
    BY <1>2, <2>1 DEF VerifyBefore, VerifyIndex, VerifyFiles, IInv, FrozenInv, NotYetBuilt,
                      Validated
  <2>2. CASE Check
    BY <1>2, <2>2, PrecedesIsOrder DEF Check, IInv, FrozenInv, NotYetBuilt, Validated
  <2>3. CASE Build
    BY <1>2, <2>3, PrecedesIsOrder DEF Build, IInv, FrozenInv, NotYetBuilt, Validated
  <2>4. CASE VerifyAfter
    BY <2>4 DEF VerifyAfter, VerifyIndex, VerifyFiles, IInv, FrozenInv, NotYetBuilt, Validated
  <2>5. QED
    BY <2>1, <2>2, <2>3, <2>4
<1>6. ApprovedInv'
  <2>1. CASE pc' = "answer"
    <3>1. pc = "files_after" /\ worktree = index /\ UNCHANGED <<checked, built>>
      BY <2>1 DEF VerifyBefore, Check, Build, VerifyAfter, VerifyIndex, VerifyFiles
    <3>2. Precedes(checked, index) /\ Precedes(built, index)
      BY <3>1 DEF IInv, FrozenInv, Validated
    <3>3. QED
      BY <1>1, <2>1, <3>1, <3>2 DEF ApprovedInv, Approved
  <2>2. CASE pc' # "answer"
    BY <1>4, <2>2 DEF ApprovedInv, Approved
  <2>3. QED
    BY <2>1, <2>2
<1>7. QED
  BY <1>1, <1>3, <1>4, <1>5, <1>6, QuietStep DEF Labels, IInv, TypeOK, CommitIds

(* The maintainer approves of what was checked and built alike.            *)
LEMMA AskIInv ==
  ASSUME IInv, Ask
  PROVE  IInv'
<1> USE DEF Goto, Exit, repoVars, remoteVars, frozenVars
<1>1. pc = "answer" /\ pc' \in {"exited", "verify_confirmed"} /\ approved \subseteq approved'
  BY DEF Ask
<1>2. checked \in Trees /\ built \in Trees
  BY <1>1 DEF IInv, FrozenInv, Validated
<1>3. TypeOK'
  BY <1>1, <1>2 DEF Ask, IInv, TypeOK, CommitIds, Labels
<1>4. TreesGrow' /\ FrozenInv'
  BY <1>1 DEF Ask, IInv, TreesGrow, FrozenInv, NotYetBuilt, Validated
<1>5. ApprovedInv'
  BY <1>1 DEF Ask, IInv, ApprovedInv, Approved
<1>6. PublishedAsValidated' /\ ReleaseWasPushed'
  BY <1>1 DEF Ask, IInv, PublishedAsValidated, ReleaseWasPushed
<1>7. QED
  BY <1>3, <1>4, <1>5, <1>6 DEF IInv

(* If the index still is the release tree, that is what was approved of.   *)
LEMMA VerifyConfirmedIInv ==
  ASSUME IInv, VerifyConfirmed
  PROVE  IInv'
<1> USE DEF Goto, Exit, Test, repoVars, remoteVars, historyVars, frozenVars
<1>1. UNCHANGED <<repoVars, remoteVars, frozenVars, runs, historyVars>>
  BY DEF VerifyConfirmed, VerifyIndex, VerifyFiles
<1>2. pc' \in {"exited", "files_confirmed", "commit"}
  BY DEF VerifyConfirmed, VerifyIndex, VerifyFiles
<1>3. pc' # "exited" => release_tree \in approved
  <2>1. CASE pc = "verify_confirmed" /\ pc' = "files_confirmed"
    <3>1. index = release_tree
      BY <2>1 DEF VerifyConfirmed, VerifyIndex, VerifyFiles
    <3>2. /\ checked \in Trees /\ built \in Trees /\ release_tree \in Trees
          /\ Precedes(release_tree, checked) /\ Precedes(release_tree, built)
      BY <2>1 DEF IInv, FrozenInv, Validated
    <3>3. Precedes(checked, release_tree) /\ Precedes(built, release_tree)
      BY <2>1, <3>1 DEF IInv, ApprovedInv
    <3>4. checked = release_tree /\ built = release_tree
      BY <3>2, <3>3, PrecedesIsOrder
    <3>5. QED
      BY <2>1, <3>4 DEF IInv, ApprovedInv
  <2>2. CASE pc = "files_confirmed"
    BY <2>2 DEF IInv, ApprovedInv, Approved
  <2>3. QED
    BY <2>1, <2>2 DEF VerifyConfirmed, VerifyIndex, VerifyFiles
<1>4. FrozenInv' /\ ApprovedInv'
  BY <1>1, <1>2, <1>3 DEF FrozenInv, ApprovedInv, NotYetBuilt, Validated, Approved
<1>5. QED
  BY <1>1, <1>2, <1>4, QuietStep DEF Labels, IInv, TypeOK, CommitIds

(* A commit makes the repository grow, and publishes nothing.              *)
LEMMA CommitIInv ==
  ASSUME IInv, Commit
  PROVE  IInv'
<1> USE DEF Goto, Exit, remoteVars, frozenVars, historyVars
<1>1. pc = "commit" /\ pc' \in {"exited", "resolve"}
        /\ UNCHANGED <<worktree, index, untracked, edits, on>>
        /\ UNCHANGED <<remoteVars, frozenVars, runs, historyVars>>
  BY DEF Commit, CommitIndex, repoVars
<1>2. /\ commits' \in Seq([tree : Trees, parent : Nat])
      /\ CommitIds \subseteq CommitIds'
      /\ \A c \in CommitIds : commits'[c] = commits[c]
      /\ tips' \in [Branches -> CommitIds']
  <2>1. CASE CommitIndex
    BY <2>1, CommitAppends DEF IInv
  <2>2. CASE UNCHANGED repoVars
    BY <2>2 DEF repoVars, IInv, TypeOK, CommitIds
  <2>3. QED
    BY <2>1, <2>2 DEF Commit
<1>3. TypeOK'
  BY <1>1, <1>2 DEF IInv, TypeOK, Labels
<1>4. TreesGrow'
  BY <1>1 DEF IInv, TreesGrow
<1>5. FrozenInv' /\ ApprovedInv'
  BY <1>1 DEF IInv, FrozenInv, ApprovedInv, NotYetBuilt, Validated, Approved
<1>6. PublishedAsValidated' /\ ReleaseWasPushed'
  BY <1>1, <1>2 DEF IInv, TypeOK, PublishedAsValidated, ReleaseWasPushed
<1>7. QED
  BY <1>3, <1>4, <1>5, <1>6 DEF IInv

(* The commit is named once, and compared with the release tree.           *)
LEMMA VerifyCommitIInv ==
  ASSUME IInv, ResolveHead \/ VerifyCommit
  PROVE  IInv'
<1> USE DEF Goto, Exit, Test, repoVars, remoteVars, frozenVars, historyVars
<1>1. UNCHANGED <<repoVars, remoteVars, dry_run, branch, release_head, release_tree, runs,
                  historyVars>>
  BY DEF ResolveHead, VerifyCommit
<1>2. /\ pc' # "exited" => release_tree \in approved /\ head' \in CommitIds
      /\ pc' = "push" => commits[head'].tree = release_tree
      /\ pc' \in {"exited", "verify_commit", "push"}
      /\ head' \in CommitIds \cup {0}
  <2>1. CASE ResolveHead
    <3>1. head' = HEAD /\ pc = "resolve" /\ pc' = "verify_commit"
      BY <2>1 DEF ResolveHead
    <3>2. QED
      BY <3>1, HeadIsCommit DEF IInv, ApprovedInv, Approved
  <2>2. CASE VerifyCommit
    BY <2>2 DEF VerifyCommit, IInv, TypeOK, ApprovedInv, Approved
  <2>3. QED
    BY <2>1, <2>2
<1>3. TypeOK'
  BY <1>1, <1>2 DEF IInv, TypeOK, CommitIds, Labels
<1>4. FrozenInv' /\ ApprovedInv'
  BY <1>1, <1>2 DEF FrozenInv, ApprovedInv, NotYetBuilt, Validated, Approved, CommitIds
<1>5. TreesGrow' /\ PublishedAsValidated' /\ ReleaseWasPushed'
  BY <1>1 DEF IInv, TreesGrow, PublishedAsValidated, ReleaseWasPushed
<1>6. QED
  BY <1>3, <1>4, <1>5 DEF IInv

(* The commit that was compared is the one pushed and released.            *)
LEMMA PublishIInv ==
  ASSUME IInv, Push \/ CreateRelease
  PROVE  IInv'
<1> USE DEF Goto, Exit, repoVars, remoteVars, frozenVars, historyVars
<1>1. pc \in {"push", "create"} /\ pc' \in {"exited", "create"}
        /\ UNCHANGED <<repoVars, frozenVars, runs, historyVars>>
  BY DEF Push, CreateRelease
<1>2. head \in CommitIds /\ commits[head].tree \in approved /\ release_tree \in approved
        /\ commits[head].tree = release_tree
  BY <1>1 DEF IInv, ApprovedInv, Approved
<1>3. /\ remote' \in [Branches -> CommitIds \cup {0}]
      /\ \A b \in Branches : remote'[b] \in {remote[b], head}
      /\ release' \in CommitIds \cup {0} /\ pushed' \subseteq CommitIds
      /\ pushed \subseteq pushed' /\ (pc' = "create" => head \in pushed')
  <2>1. CASE Push
    BY <1>2, <2>1 DEF Push, IInv, TypeOK
  <2>2. CASE CreateRelease
    BY <1>2, <2>2 DEF CreateRelease, IInv, TypeOK
  <2>3. QED
    BY <2>1, <2>2
<1>4. release' # release => release' = head /\ head \in pushed'
  BY DEF Push, CreateRelease, IInv, ApprovedInv
<1>5. TypeOK'
  BY <1>1, <1>3 DEF IInv, TypeOK, CommitIds, Labels
<1>6. FrozenInv' /\ ApprovedInv'
  BY <1>1, <1>2, <1>3 DEF FrozenInv, ApprovedInv, NotYetBuilt, Validated, Approved, CommitIds
<1>7. TreesGrow'
  BY <1>1 DEF IInv, TreesGrow
<1>8. PublishedAsValidated' /\ ReleaseWasPushed'
  BY <1>1, <1>2, <1>3, <1>4 DEF IInv, PublishedAsValidated, ReleaseWasPushed
<1>9. QED
  BY <1>5, <1>6, <1>7, <1>8 DEF IInv

(* Every step keeps IInv.                                                  *)
LEMMA NextIInv == IInv /\ [Next]_vars => IInv'
<1> SUFFICES ASSUME IInv, [Next]_vars PROVE IInv'
  OBVIOUS
<1>1. CASE UNCHANGED vars
  <2>1. Grows
    BY <1>1, PrecedesIsOrder DEF vars, repoVars, Grows, IInv, TypeOK, TreesGrow, CommitIds
  <2>2. QED
    BY <1>1, <2>1, GrowsIInv DEF vars
<1>2. CASE Others
  BY <1>2, OthersGrow, GrowsIInv DEF Others
<1>3. CASE Script
  BY <1>3, PreparationIInv, EditingIInv, ValidationIInv, AskIInv, VerifyConfirmedIInv,
     CommitIInv, VerifyCommitIInv, PublishIInv DEF Script
<1>4. QED
  BY <1>1, <1>2, <1>3 DEF Next

(* IInv holds in every state.                                              *)
THEOREM Inductive == Spec => []IInv
  BY InitIInv, NextIInv, PTL DEF Spec

(* Only trees that were checked, built and approved of are published.      *)
THEOREM ValidatedOnly == Spec => []PublishedAsValidated
<1>1. IInv => PublishedAsValidated
  BY DEF IInv
<1>2. QED
  BY <1>1, Inductive, PTL

(* A release is never made of a commit that origin does not have.          *)
THEOREM PushedFirst == Spec => []ReleaseWasPushed
<1>1. IInv => ReleaseWasPushed
  BY DEF IInv
<1>2. QED
  BY <1>1, Inductive, PTL

(* The question is passed by no dry run, in any order of steps.            *)
LEMMA AnsweredKept == AnsweredInv /\ [Next]_vars => AnsweredInv'
<1> SUFFICES ASSUME AnsweredInv, [Next]_vars PROVE AnsweredInv'
  OBVIOUS
<1> USE DEF AnsweredInv, Approved
<1>1. CASE UNCHANGED <<pc, dry_run>>
  BY <1>1
<1>2. CASE pc' = "exited"
  BY <1>2
<1>3. CASE Script
  <2>1. CASE pc' \in {"clean", "head", "tree", "preconditions", "version", "index", "add",
                     "freeze", "verify_before", "files_before", "check", "build",
                     "verify_after", "files_after", "answer"}
    BY <2>1
  <2>2. CASE VerifyConfirmed \/ Commit \/ ResolveHead \/ VerifyCommit \/ Push \/ CreateRelease
    BY <2>2 DEF VerifyConfirmed, VerifyIndex, VerifyFiles, Commit, ResolveHead, VerifyCommit,
                Push, CreateRelease, Goto, Exit, Test, frozenVars
  <2>3. CASE Ask
    BY <2>3 DEF Ask, Goto, Exit, frozenVars
  <2>4. CASE ~(VerifyConfirmed \/ Commit \/ ResolveHead \/ VerifyCommit \/ Push
               \/ CreateRelease \/ Ask)
    BY <1>2, <1>3, <2>1, <2>4
    DEF Script, Run, CheckClean, ReadHead, ReadTree, CheckPreconditions, SetVersion, CheckIndex,
        AddVersionFiles, WriteTree, VerifyBefore, VerifyAfter, VerifyIndex, VerifyFiles, Check,
        Build, Goto, Exit, Test
  <2>5. QED
    BY <2>2, <2>3, <2>4
<1>4. QED
  BY <1>1, <1>3 DEF Next, Others, vars, scriptVars, frozenVars

(* A dry run publishes nothing, whatever happens to it.                    *)
THEOREM DryRunHarmless == Spec => DryRunPublishesNothing
<1>1. Init => AnsweredInv
  BY DEF Init, AnsweredInv, Approved
<1>2. AnsweredInv /\ [Next]_vars => [dry_run => UNCHANGED remoteVars]_vars
  BY DEF AnsweredInv, Approved, Next, Others, Script, Run, CheckClean, ReadHead, ReadTree,
         CheckPreconditions, SetVersion, CheckIndex, AddVersionFiles, WriteTree, VerifyBefore,
         VerifyAfter, VerifyConfirmed, VerifyIndex, VerifyFiles, Check, Build, Ask, Commit,
         ResolveHead, VerifyCommit, Push, CreateRelease, Goto, Exit, Test, remoteVars
<1>3. QED
  BY <1>1, <1>2, AnsweredKept, PTL DEF Spec, DryRunPublishesNothing

=============================================================================
