----------------------- MODULE MCWorkspaceRecoveryGate -----------------------
(***************************************************************************)
(* Instances of WorkspaceRecoveryGate for TLC: a repository with a linked  *)
(* worktree, a clone of another repository inside that worktree, and a     *)
(* directory outside.  Two requests name several workspaces, as a thread   *)
(* does with its project and its worktree: one of them names two paths of  *)
(* one repository, of which the gate keeps the first.                      *)
(***************************************************************************)
EXTENDS WorkspaceRecoveryGate

CONSTANTS a, b, t,                       \* clients
          main, wt, clone, outside,      \* paths
          repo, other                    \* Git common directories

McRepoOf == [p \in Paths |-> CASE p \in {main, wt} -> repo
                               [] p = clone -> other
                               [] OTHER -> NoRepo]
McUnder == {<<p, p>> : p \in Paths} \cup {<<wt, clone>>}

Lists == {<<main, wt>>, <<outside, wt>>, <<clone>>}

=============================================================================
