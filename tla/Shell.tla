------------------------------- MODULE Shell -------------------------------
(***************************************************************************)
(* The job control of the shell A07-Shells/ish.c: one process reads lines, *)
(* forks children in the foreground or the background, keeps a list of     *)
(* background jobs and polls it when SIGCHLD has been seen.  Children end  *)
(* at any time, and the signal handler runs between any two steps.  How a  *)
(* line is taken apart is in the module Lines.                             *)
(*                                                                         *)
(* fork, waitpid and the delivery of signals are the operating system's;   *)
(* they are modelled as POSIX describes the calls that ish.c makes.        *)
(***************************************************************************)
EXTENDS Integers, Sequences, Lines

CONSTANTS
  Pids,         \* process ids; bound of the model: no more children at a time
  FORK_FAILS,   \* may fork return -1?
  MAX_JOBS      \* bound of the model: fork does not fail with so many jobs

WNOHANG == 1

Exited(code) == [how |-> "exit", code |-> code]
Killed == [how |-> "signal", code |-> 0]
Statuses == {Exited(0), Exited(1), Killed}

WIFEXITED(status) == status.how = "exit"
WEXITSTATUS(status) == status.code

ASSUME ShellAssumption ==
  /\ Pids \subseteq Nat \ {0}
  /\ \A line \in Texts : line # <<>> /\ IsLine(line)
  /\ FORK_FAILS \in BOOLEAN
  /\ MAX_JOBS \in Nat

VARIABLES
  proc,          \* the processes that are children of the shell
  pending,       \* a SIGCHLD has been sent and not yet handled
  got_sigchld,
  jobs,          \* the list of background jobs, its head first
  pc,            \* where main and check_jobs are
  j,             \* check_jobs: position in jobs
  options,       \* check_jobs: its argument
  fg,            \* main: the pid that fork returned for the foreground
  output,        \* what the last step of the shell printed about a child
  fork_failed    \* history variable, not in the code: has fork ever failed?

vars == <<proc, pending, got_sigchld, jobs, pc, j, options, fg, output,
          fork_failed>>

\* No such child; children are running, or have ended and can be waited for.
None == [state |-> "none"]
Running(words) == [state |-> "running", args |-> words]
Ended(words, status) == [state |-> "ended", args |-> words, status |-> status]

Silent == [kind |-> "silent"]

Children == {p \in Pids : proc[p] # None}
Zombies == {p \in Pids : proc[p].state = "ended"}
-----------------------------------------------------------------------------
(* The operating system *)

\* The children that waitpid(pid, ...) asks for: one, or any if pid is -1.
Selected(pid) == IF pid = -1 THEN Children ELSE {pid} \intersect Children

\* waitpid(pid, &status, opts) returns p > 0, and p is no longer a child ...
Reaps(pid, p) ==
  /\ p \in Selected(pid) \intersect Zombies
  /\ proc' = [proc EXCEPT ![p] = None]

\* ... or 0, for children that are running, which only WNOHANG allows ...
ReturnsZero(pid, opts) ==
  /\ opts = WNOHANG
  /\ Selected(pid) # {} /\ Selected(pid) \intersect Zombies = {}
  /\ UNCHANGED proc

\* ... or -1, for want of children.
ReturnsError(pid) == Selected(pid) = {} /\ UNCHANGED proc

\* fork returns the pid of a new child, which passes words to execve ...
Forks(pid, words) ==
  /\ pid \in Pids \ Children
  /\ proc' = [proc EXCEPT ![pid] = Running(words)]
  /\ UNCHANGED fork_failed

\* ... or -1, which main does not expect.
ForkFails(pid) ==
  /\ FORK_FAILS /\ Len(jobs) < MAX_JOBS
  /\ pid = -1 /\ UNCHANGED proc /\ fork_failed' = TRUE

\* A child ends: it returns, is killed, or could not be executed.
ChildEnds(p) ==
  /\ proc[p].state = "running"
  /\ \E status \in Statuses :
       proc' = [proc EXCEPT ![p] = Ended(proc[p].args, status)]
  /\ pending' = TRUE
  /\ UNCHANGED <<got_sigchld, jobs, pc, j, options, fg, output,
                 fork_failed>>

\* A child is stopped or continued: another SIGCHLD, and no new status.
ChildStops(p) ==
  /\ proc[p].state = "running"
  /\ pending' = TRUE
  /\ UNCHANGED <<proc, got_sigchld, jobs, pc, j, options, fg, output,
                 fork_failed>>

\* The signal is delivered, between any two steps of the shell.
handle_sigchld ==
  /\ pending /\ pc # "gone"
  /\ pending' = FALSE
  /\ got_sigchld' = 1
  /\ UNCHANGED <<proc, jobs, pc, j, options, fg, output,
                 fork_failed>>
-----------------------------------------------------------------------------
(* check_jobs *)

\* Mutant: the list keeps the job that has ended.
KeepJob(k) == jobs

\* The list without its k-th job.
without(k) == SubSeq(jobs, 1, k - 1) \o SubSeq(jobs, k + 1, Len(jobs))

\* Mutant: the job after the one that ended is reported.
ReportNext(p) ==
  [kind |-> IF WEXITSTATUS(proc[p].status) = 0 THEN "complete" ELSE "status",
   command |-> jobs[IF j < Len(jobs) THEN j + 1 ELSE j].command,
   code |-> WEXITSTATUS(proc[p].status)]

\* What is printed of the job at j, when p has been reaped for it.
report(p) ==
  [kind |-> IF WEXITSTATUS(proc[p].status) = 0 THEN "complete" ELSE "status",
   command |-> jobs[j].command,
   code |-> WEXITSTATUS(proc[p].status)]

still_running == [kind |-> "running", command |-> jobs[j].command]

AtJob == pc = "check" /\ j <= Len(jobs)

\* The process has ended: report and unlink its job.
JobEnded ==
  /\ AtJob
  /\ \E p \in Pids : Reaps(jobs[j].pid, p) /\ output' = report(p)
  /\ jobs' = without(j)
  /\ UNCHANGED <<pending, got_sigchld, pc, j, options, fg, fork_failed>>

\* waitpid returned 0 or -1: with WNOHANG go on to the next job.  Without, a
\* result of -1 is met again and again, and check_jobs never returns.
JobRunning ==
  /\ AtJob
  /\ options = WNOHANG
  /\ ReturnsZero(jobs[j].pid, options) \/ ReturnsError(jobs[j].pid)
  /\ output' = still_running
  /\ j' = j + 1
  /\ UNCHANGED <<pending, got_sigchld, jobs, pc, options, fg, fork_failed>>

\* All jobs have been checked: back in main, which clears the flag or leaves.
Checked ==
  /\ pc = "check" /\ j > Len(jobs)
  /\ pc' = IF options = WNOHANG THEN "clear" ELSE "gone"
  /\ output' = Silent
  /\ UNCHANGED <<proc, pending, got_sigchld, jobs, j, options, fg, fork_failed>>
-----------------------------------------------------------------------------
(* main *)

check_jobs(opts) == pc' = "check" /\ j' = 1 /\ options' = opts

Init ==
  /\ proc = [p \in Pids |-> None]
  /\ pending = FALSE /\ got_sigchld = 0
  /\ jobs = <<>>
  /\ pc = "top" /\ j = 1 /\ options = 0 /\ fg = -1
  /\ output = Silent /\ fork_failed = FALSE

\* The head of the loop: have there been signals?
LoopTop ==
  /\ pc = "top"
  /\ IF got_sigchld # 0 THEN check_jobs(WNOHANG)
     ELSE pc' = "read" /\ UNCHANGED <<j, options>>
  /\ output' = Silent
  /\ UNCHANGED <<proc, pending, got_sigchld, jobs, fg, fork_failed>>

\* check_jobs has returned; a signal that came meanwhile is forgotten.
ClearFlag ==
  /\ pc = "clear"
  /\ got_sigchld' = 0
  /\ pc' = "read"
  /\ output' = Silent
  /\ UNCHANGED <<proc, pending, jobs, j, options, fg, fork_failed>>

EmptyLine(line) ==
  /\ pc = "read" /\ is_empty(line)
  /\ pc' = "top"
  /\ output' = Silent
  /\ UNCHANGED <<proc, pending, got_sigchld, jobs, j, options, fg, fork_failed>>

\* The last line has no newline: an assertion of parse_line fails.
Unterminated(line) ==
  /\ pc = "read" /\ ~is_empty(line) /\ ~is_terminated(munged(line))
  /\ pc' = "aborted"
  /\ output' = Silent
  /\ UNCHANGED <<proc, pending, got_sigchld, jobs, j, options, fg, fork_failed>>

\* A line to be run, in the background or in the foreground.
Runs(line, background) ==
  /\ pc = "read" /\ ~is_empty(line) /\ is_terminated(munged(line))
  /\ is_background(line) = background

\* Mutant: the shell leaves without waiting.
JustLeave ==
  /\ pc = "read"
  /\ pc' = "gone" /\ UNCHANGED <<j, options>>
  /\ output' = Silent
  /\ UNCHANGED <<proc, pending, got_sigchld, jobs, fg, fork_failed>>

\* End of input: wait for all jobs, then leave.
EndOfFile ==
  /\ pc = "read"
  /\ IF jobs # <<>> THEN check_jobs(0)
     ELSE pc' = "gone" /\ UNCHANGED <<j, options>>
  /\ output' = Silent
  /\ UNCHANGED <<proc, pending, got_sigchld, jobs, fg, fork_failed>>

\* getline failed: leave at once.
ReadError ==
  /\ pc = "read"
  /\ pc' = "failed"
  /\ output' = Silent
  /\ UNCHANGED <<proc, pending, got_sigchld, jobs, j, options, fg, fork_failed>>

add_job(pid, name) == <<[command |-> name, pid |-> pid]>> \o jobs

Background(line) ==
  /\ Runs(line, TRUE)
  /\ \E pid \in Pids \union {-1} :
       /\ Forks(pid, args(line)) \/ ForkFails(pid)
       /\ jobs' = add_job(pid, command(line))
  /\ pc' = "top"
  /\ output' = Silent
  /\ UNCHANGED <<pending, got_sigchld, j, options, fg>>

Foreground(line) ==
  /\ Runs(line, FALSE)
  /\ \E pid \in Pids \union {-1} :
       (Forks(pid, args(line)) \/ ForkFails(pid)) /\ fg' = pid
  /\ pc' = "wait"
  /\ output' = Silent
  /\ UNCHANGED <<pending, got_sigchld, jobs, j, options>>

\* Mutant: WNOHANG is passed to waitpid for the foreground as well.
NoWait ==
  /\ pc = "wait"
  /\ \/ \E p \in Pids : Reaps(fg, p)
     \/ ReturnsZero(fg, WNOHANG) \/ ReturnsError(fg)
  /\ output' = Silent
  /\ fg' = -1
  /\ pc' = "top"
  /\ UNCHANGED <<pending, got_sigchld, jobs, j, options, fork_failed>>

\* waitpid for the foreground.  The status is printed unless the child has
\* exited; if there was no child to wait for, child_status has no value.
WaitForeground ==
  /\ pc = "wait"
  /\ \E status \in Statuses :
       /\ \/ \E p \in Pids : Reaps(fg, p) /\ status = proc[p].status
          \/ ReturnsError(fg)
       /\ output' = IF WIFEXITED(status) THEN Silent
                    ELSE [kind |-> "ish", code |-> WEXITSTATUS(status)]
  /\ fg' = -1
  /\ pc' = "top"
  /\ UNCHANGED <<pending, got_sigchld, jobs, j, options, fork_failed>>

ReadLine ==
  \/ EndOfFile \/ ReadError
  \/ \E line \in Texts :
       EmptyLine(line) \/ Unterminated(line) \/ Background(line) \/ Foreground(line)

ShellStep ==
  LoopTop \/ JobEnded \/ JobRunning \/ Checked \/ ClearFlag \/ WaitForeground

Next ==
  \/ ShellStep \/ ReadLine \/ handle_sigchld
  \/ \E p \in Pids : ChildEnds(p) \/ ChildStops(p)

Spec == Init /\ [][Next]_vars

\* The shell runs, signals arrive, every child ends at last.
FairSpec ==
  /\ Spec
  /\ WF_vars(ShellStep) /\ WF_vars(handle_sigchld)
  /\ \A p \in Pids : WF_vars(ChildEnds(p))

\* And there is always another line.
TypingSpec == FairSpec /\ WF_vars(ReadLine)
-----------------------------------------------------------------------------
(* Properties *)

NonEmpty == {line \in Texts : ~is_empty(line)}
Words == {args(line) : line \in NonEmpty}

Process ==
  {None} \union {Running(w) : w \in Words}
    \union {Ended(w, s) : w \in Words, s \in Statuses}

Job == [command : {command(line) : line \in NonEmpty}, pid : Pids \union {-1}]

TypeOK ==
  /\ proc \in [Pids -> Process]
  /\ pending \in BOOLEAN
  /\ got_sigchld \in {0, 1}
  /\ jobs \in Seq(Job)
  /\ pc \in {"top", "check", "clear", "read", "wait", "gone", "failed", "aborted"}
  /\ j \in 1 .. Len(jobs) + 1
  /\ options \in {0, WNOHANG}
  /\ fg \in Pids \union {-1}
  /\ pc # "wait" => fg = -1
  /\ fork_failed \in BOOLEAN

Listed(p) == \E k \in DOMAIN jobs : jobs[k].pid = p

\* The list of jobs is right: each child is a job or is being waited for in the
\* foreground.  And as long as fork has not failed each job is a child of its
\* own, which runs the command that the job is named for: no status is lost, and
\* no child is waited for twice.
JobsAreChildren ==
  /\ \A p \in Children : p = fg \/ Listed(p)
  /\ ~fork_failed =>
       /\ \A k \in DOMAIN jobs :
            /\ jobs[k].pid \in Children \ {fg}
            /\ Join(proc[jobs[k].pid].args, SPACE) = jobs[k].command
       /\ \A k, l \in DOMAIN jobs : jobs[k].pid = jobs[l].pid => k = l
       /\ pc = "wait" => fg \in Children

\* After the end of input the shell leaves no child behind, even if its list has
\* jobs for which fork had failed.
LeavesNoChild == pc = "gone" => Children = {}

Reaped(p) == proc[p] # None /\ proc'[p] = None

\* As long as fork has not failed, check_jobs names the command that has ended,
\* with its own exit status, and calls a command running only while it is.
ReportsTrue ==
  [][~fork_failed =>
       /\ \A p \in Pids : Reaped(p) /\ pc = "check" =>
            /\ output'.kind \in {"complete", "status"}
            /\ output'.command = Join(proc[p].args, SPACE)
            /\ output'.code = WEXITSTATUS(proc[p].status)
       /\ pc = "check" /\ j' = j + 1 =>
            /\ output'.kind = "running"
            /\ proc[jobs[j].pid].state = "running"
            /\ output'.command = Join(proc[jobs[j].pid].args, SPACE)]_vars

AtPrompt == pc \in {"read", "gone", "failed", "aborted"}

\* At the end of input, the next job has no child that could end: a job for which
\* fork has failed, or one whose child was reaped for such a job.
WaitsForNobody ==
  /\ fork_failed
  /\ AtJob /\ options # WNOHANG /\ Selected(jobs[j].pid) = {}

\* The prompt comes back, or the shell ends, once the children that it waits
\* for have ended: check_jobs and waitpid return, unless fork has failed.
PromptReturns == ~AtPrompt ~> (AtPrompt \/ WaitsForNobody)

\* TODO #6: when something has changed, the user is told; a background job
\* that has ended is reported while lines are being read.
ChangesReported ==
  \A p \in Pids : proc[p].state = "ended" ~>
                    (proc[p].state # "ended" \/ pc \in {"failed", "aborted"})
=============================================================================
