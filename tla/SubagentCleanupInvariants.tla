--------------------- MODULE SubagentCleanupInvariants ---------------------
(***************************************************************************)
(* The inductive invariants behind the safety properties of                *)
(* SubagentCleanup: what jobs, rows and the bank say of each other while a *)
(* cleanup command runs, stops, and runs again.                            *)
(***************************************************************************)
EXTENDS SubagentCleanup, ImporterInvariants

\* The command and the daemon hold the same lock.
CommandAlone == run.pc # "idle" => phase = "down"

NothingOpen(h) == \A r \in Replay : <<h, r>> \notin Open

\* A job names the operation its generation had when it was written.  Its
\* generation waits for the cleanup, or is excluded; nothing claims it again.
JobAt(k, h) ==
  job[k][h].phase # "none" =>
    /\ ~Retaining
    /\ generation[h].state \in {"cleanup_pending", "excluded"}
    /\ job[k][h].op = IF operation[h][generation[h].replay] = "none" THEN None
                      ELSE generation[h].replay
    /\ job[k][h].phase # "planned" => NothingOpen(h)
    /\ job[k][h].phase = "state_finalized" => generation[h].state = "excluded"

ExcludedAt(h) == generation[h].state = "excluded" => NothingOpen(h)

\* The jobs that are left to the command are open jobs of the reviewed plan.
TodoInv ==
  \A j \in run.todo :
    j \in run.reviewed /\ job[j[1]][j[2]].phase \in {"planned", "remote_deleted"}

Settling == {"settle", "cancel", "recheck", "wait"}

\* What is true of the current job, by the step the command has reached.
CurrentInv ==
  run.pc \notin {"idle", "classify", "list", "next"} =>
    /\ run.cur \in run.reviewed
    /\ run.cur \notin run.todo
    /\ Current.phase = IF run.pc \in {"finalize", "close"} THEN "remote_deleted" ELSE "planned"
    /\ run.pc \in Settling => Current.op # None
    /\ run.pc \notin Settling => NothingOpen(run.cur[2])
    /\ run.pc = "close" => generation[run.cur[2]].state = "excluded"

CleanupInv ==
  /\ CommandAlone
  /\ \A k \in TargetKind, h \in Hash : JobAt(k, h)
  /\ \A h \in Hash : ExcludedAt(h)
  /\ TodoInv
  /\ CurrentInv
=============================================================================
