----------------------------- MODULE MCPrograms -----------------------------
(***************************************************************************)
(* TLC instance of the parts that share no state with another: the receive *)
(* loop, the service, the thread example and the system call example.      *)
(* program says which of them a behaviour is of; the others stay where     *)
(* they start.                                                             *)
(***************************************************************************)
EXTENDS RecvLine, Threading

VARIABLES
  program,
  script, loaded, node, daemon, fd, fresh,
  call, parent, result, child, status, ran, stdout, open_fd, fault

V == INSTANCE AesdService
S == INSTANCE SystemCalls

serviceVars == <<script, loaded, node, daemon, fd, fresh>>
callVars    == <<call, parent, result, child, status, ran, stdout, open_fd, fault>>
allVars == <<program, vars, threadVars, serviceVars, callVars>>

Runs(p) == program = p /\ UNCHANGED program

LineNext    == Runs("line") /\ Next
               /\ UNCHANGED <<threadVars, serviceVars, callVars>>
ThreadNext  == Runs("threads") /\ ThreadingNext
               /\ UNCHANGED <<vars, serviceVars, callVars>>
ServiceNext == Runs("service") /\ V!Next
               /\ UNCHANGED <<vars, threadVars, callVars>>
CallNext    == Runs("calls") /\ S!Next
               /\ UNCHANGED <<vars, threadVars, serviceVars>>

ProgramsInit ==
  /\ program \in {"line", "threads", "service", "calls"}
  /\ Init /\ ThreadingInit /\ V!Init /\ S!Init

ProgramsSpec ==
  /\ ProgramsInit
  /\ [][LineNext \/ ThreadNext \/ ServiceNext \/ CallNext]_allVars
  /\ \A t \in Threads :
       /\ WF_allVars(ThreadNext /\ (WaitToObtain(t) \/ WaitToRelease(t) \/ Unlock(t)))
       /\ SF_allVars(ThreadNext /\ Lock(t))
  /\ WF_allVars(ServiceNext /\ V!ScriptStep)
  /\ WF_allVars(ServiceNext /\ V!DaemonEnds)

\* The properties of the service and the system calls, by the names the
\* configuration uses; each is stated with the program it is about.
NodeNeedsModule        == V!NodeNeedsModule
FreshStartServesDevice == V!FreshStartServesDevice
StoppedForGood         == V!StoppedForGood
TrueMeansExecuted      == S!TrueMeansExecuted
NothingLeftBehind      == S!NothingLeftBehind
=============================================================================
