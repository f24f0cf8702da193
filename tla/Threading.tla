----------------------------- MODULE Threading ------------------------------
(***************************************************************************)
(* examples/threading/threading.c: threads that wait, obtain one mutex,    *)
(* hold it for a while and release it, the caller that starts them, and    *)
(* who owns each thread's struct thread_data.                              *)
(***************************************************************************)
EXTENDS Integers, FiniteSets

CONSTANTS Threads, Nobody

ASSUME ThreadingAssumption == Nobody \notin Threads

VARIABLES
  thread,       \* where each thread is
  mutex,        \* who holds it
  thread_data,  \* the threads whose thread_data is allocated
  thread_complete_success

threadVars == <<thread, mutex, thread_data, thread_complete_success>>

ThreadingInit ==
  /\ thread = [t \in Threads |-> "none"]
  /\ mutex = Nobody
  /\ thread_data = {}
  /\ thread_complete_success = [t \in Threads |-> FALSE]

Goto(t, from, to) == thread[t] = from /\ thread' = [thread EXCEPT ![t] = to]

-----------------------------------------------------------------------------
(***************************************************************************)
(* start_thread_obtaining_mutex, and the caller that joins a thread and    *)
(* frees what it returns.                                                  *)
(***************************************************************************)
Start(t) ==
  /\ Goto(t, "none", "wait")
  /\ thread_data' = thread_data \cup {t}
  /\ UNCHANGED <<mutex, thread_complete_success>>

\* malloc or pthread_create fails: FALSE is returned, and nothing is kept.
StartFails(t) ==
  /\ Goto(t, "none", "refused")
  /\ UNCHANGED <<mutex, thread_data, thread_complete_success>>

Join(t) ==
  /\ Goto(t, "ended", "joined")
  /\ thread_data' = thread_data \ {t}
  /\ UNCHANGED <<mutex, thread_complete_success>>

-----------------------------------------------------------------------------
(***************************************************************************)
(* threadfunc.                                                             *)
(***************************************************************************)
WaitToObtain(t) ==
  /\ Goto(t, "wait", "lock")
  /\ UNCHANGED <<mutex, thread_data, thread_complete_success>>

Lock(t) ==
  /\ mutex = Nobody
  /\ Goto(t, "lock", "hold")
  /\ mutex' = t
  /\ UNCHANGED <<thread_data, thread_complete_success>>

WaitToRelease(t) ==
  /\ Goto(t, "hold", "unlock")
  /\ UNCHANGED <<mutex, thread_data, thread_complete_success>>

UnlockNothing(t) ==     \* mutant: success without pthread_mutex_unlock
  /\ Goto(t, "unlock", "ended")
  /\ thread_complete_success' = [thread_complete_success EXCEPT ![t] = TRUE]
  /\ UNCHANGED <<mutex, thread_data>>

Unlock(t) ==
  /\ Goto(t, "unlock", "ended")
  /\ mutex' = Nobody
  /\ thread_complete_success' = [thread_complete_success EXCEPT ![t] = TRUE]
  /\ UNCHANGED thread_data

FailsWithSuccess(t) ==  \* mutant: err_handle does not report the error
  /\ \E place \in {"wait", "lock", "hold", "unlock"} : Goto(t, place, "ended")
  /\ thread_complete_success' = [thread_complete_success EXCEPT ![t] = TRUE]
  /\ UNCHANGED <<mutex, thread_data>>

\* err_handle: one of the four calls fails, usleep for a signal, for instance,
\* pthread_mutex_lock without taking the mutex, pthread_mutex_unlock without
\* giving it back.  A mutex that is held is not released.
Fails(t) ==
  /\ \E place \in {"wait", "lock", "hold", "unlock"} : Goto(t, place, "ended")
  /\ thread_complete_success' = [thread_complete_success EXCEPT ![t] = FALSE]
  /\ UNCHANGED <<mutex, thread_data>>

ThreadStep(t) == WaitToObtain(t) \/ Lock(t) \/ WaitToRelease(t) \/ Unlock(t)

ThreadingNext == \E t \in Threads : \/ Start(t) \/ StartFails(t) \/ Join(t)
                                    \/ ThreadStep(t) \/ Fails(t)

ThreadingSpec == ThreadingInit /\ [][ThreadingNext]_threadVars

-----------------------------------------------------------------------------
\* A joiner that reads thread_complete_success knows: TRUE only if the thread
\* has held the mutex and given it back, and the mutex is held by a thread that
\* is inside its critical section or has ended with an error.
SuccessMeansReleased ==
  /\ \A t \in Threads : thread_complete_success[t] => mutex # t
  /\ \A t \in Threads :
       thread[t] \in {"hold", "unlock"} => mutex = t /\ ~thread_complete_success[t]
  /\ mutex # Nobody => thread[mutex] \in {"hold", "unlock", "ended", "joined"}

\* Every thread that was started ends, unless one has failed while it held the
\* mutex: it ends without giving it back, and the others wait for ever.
FailedHolding ==
  \E t \in Threads : /\ mutex = t /\ thread[t] \in {"ended", "joined"}
                     /\ ~thread_complete_success[t]
ThreadsEnd ==
  [](~FailedHolding) =>
    \A t \in Threads : thread[t] = "wait" ~> thread[t] \in {"ended", "joined"}
=============================================================================
