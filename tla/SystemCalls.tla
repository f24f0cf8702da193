---------------------------- MODULE SystemCalls -----------------------------
(***************************************************************************)
(* examples/systemcalls/systemcalls.c: the caller of do_system, do_exec or *)
(* do_exec_redirect, the child it forks, the command the child turns into, *)
(* and the descriptors of the output file.                                 *)
(***************************************************************************)
EXTENDS Integers

VARIABLES
  call,      \* "system", "exec", "redirect", or "none" before the call
  parent,    \* where the caller is: "idle", "wait", or "back" with result
  result,
  child,     \* "none", "dup", "exec", "command", "zombie", or "reaped"
  status,    \* how the child ended: "running", "zero", "nonzero", "signal"
  ran,       \* whether execv has succeeded
  stdout,    \* the child's descriptor 1
  open_fd,   \* who has the descriptor of the output file open
  fault      \* history: "none", "fork" or "wait", the caller's call that failed

callVars == <<call, parent, result, child, status, ran, stdout, open_fd, fault>>

Init ==
  /\ call = "none" /\ parent = "idle" /\ result = FALSE
  /\ child = "none" /\ status = "running" /\ ran = FALSE
  /\ stdout = "inherited" /\ open_fd = {}
  /\ fault = "none"

Returns(r) == parent' = "back" /\ result' = r

-----------------------------------------------------------------------------
(***************************************************************************)
(* The caller.                                                             *)
(***************************************************************************)
\* do_system: the library forks, executes and waits; FALSE only when that
\* fails, whatever the status of the command.
System ==
  /\ parent = "idle"
  /\ call' = "system"
  /\ \/ /\ Returns(TRUE)
        /\ \E s \in {"zero", "nonzero", "signal"} : status' = s
        /\ child' = "reaped"
     \/ Returns(FALSE) /\ UNCHANGED <<child, status>>
  /\ UNCHANGED <<ran, stdout, open_fd, fault>>

Fork(c) ==
  /\ parent = "idle"
  /\ call' = c
  /\ child' = IF c = "redirect" THEN "dup" ELSE "exec"
  /\ open_fd' = IF c = "redirect" THEN {"parent", "child"} ELSE {}
  /\ parent' = IF c = "redirect" THEN "close" ELSE "wait"
  /\ UNCHANGED <<result, status, ran, stdout, fault>>

OpenFails ==
  /\ parent = "idle"
  /\ call' = "redirect"
  /\ Returns(FALSE)
  /\ UNCHANGED <<child, status, ran, stdout, open_fd, fault>>

\* fork fails: do_exec_redirect returns with the output file open.
ForkFails(c) ==
  /\ parent = "idle"
  /\ call' = c
  /\ open_fd' = IF c = "redirect" THEN {"parent"} ELSE {}
  /\ fault' = "fork"
  /\ Returns(FALSE)
  /\ UNCHANGED <<child, status, ran, stdout>>

KeepFile ==             \* mutant: the caller does not close the output file
  /\ parent = "close"
  /\ parent' = "wait"
  /\ UNCHANGED <<call, result, child, status, ran, stdout, open_fd, fault>>

CloseFile ==
  /\ parent = "close"
  /\ open_fd' = open_fd \ {"parent"}
  /\ parent' = "wait"
  /\ UNCHANGED <<call, result, child, status, ran, stdout, fault>>

WaitForExit ==          \* mutant: only WIFEXITED is looked at
  /\ parent = "wait" /\ child = "zombie"
  /\ child' = "reaped"
  /\ Returns(status \in {"zero", "nonzero"})
  /\ UNCHANGED <<call, status, ran, stdout, open_fd, fault>>

\* waitpid returns the status: TRUE when the child has exited with 0.
Wait ==
  /\ parent = "wait" /\ child = "zombie"
  /\ child' = "reaped"
  /\ Returns(status = "zero")
  /\ UNCHANGED <<call, status, ran, stdout, open_fd, fault>>

\* waitpid fails, when a handler interrupts it for instance.
WaitFails ==
  /\ parent = "wait"
  /\ fault' = "wait"
  /\ Returns(FALSE)
  /\ UNCHANGED <<call, child, status, ran, stdout, open_fd>>

-----------------------------------------------------------------------------
(***************************************************************************)
(* The child.                                                              *)
(***************************************************************************)
Ends(s) == child' = "zombie" /\ status' = s /\ open_fd' = open_fd \ {"child"}

\* dup2 makes the file the child's output, and its other descriptor is closed.
Dup ==
  /\ child = "dup"
  /\ stdout' = "file"
  /\ open_fd' = open_fd \ {"child"}
  /\ child' = "exec"
  /\ UNCHANGED <<call, parent, result, status, ran, fault>>

DupFails ==
  /\ child = "dup"
  /\ Ends("nonzero")
  /\ UNCHANGED <<call, parent, result, ran, stdout, fault>>

Execv ==
  /\ child = "exec"
  /\ ran' = TRUE
  /\ child' = "command"
  /\ UNCHANGED <<call, parent, result, status, stdout, open_fd, fault>>

ExecvFailsQuietly ==    \* mutant: the child exits with 0
  /\ child = "exec"
  /\ Ends("zero")
  /\ UNCHANGED <<call, parent, result, ran, stdout, fault>>

\* execv comes back only when it fails: exit(1).
ExecvFails ==
  /\ child = "exec"
  /\ Ends("nonzero")
  /\ UNCHANGED <<call, parent, result, ran, stdout, fault>>

CommandEnds ==
  /\ child = "command"
  /\ \E s \in {"zero", "nonzero", "signal"} : Ends(s)
  /\ UNCHANGED <<call, parent, result, ran, stdout, fault>>

CallerStep == CloseFile \/ Wait
ChildStep  == Dup \/ Execv \/ ExecvFails

Next ==
  \/ \E c \in {"exec", "redirect"} : Fork(c) \/ ForkFails(c)
  \/ System \/ OpenFails \/ WaitFails \/ DupFails \/ CommandEnds
  \/ CallerStep \/ ChildStep

-----------------------------------------------------------------------------
\* "true if the command ... were executed successfully": a TRUE reaches the
\* caller through two processes only when execv took place, the command exited
\* with 0, and do_exec_redirect's command wrote to the file.  do_system's TRUE
\* says less.
TrueMeansExecuted ==
  result /\ call # "system" => ran /\ status = "zero" /\ (call = "redirect" => stdout = "file")

\* When the call is back it has left nothing behind, neither a child nor an open
\* output file, unless fork failed in do_exec_redirect (the file stays open) or
\* waitpid failed (the child is never waited for).
NothingLeftBehind ==
  parent = "back" =>
    /\ child \in {"none", "reaped"} \/ fault = "wait"
    /\ "parent" \notin open_fd \/ (call = "redirect" /\ fault = "fork")
=============================================================================
