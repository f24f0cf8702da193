---------------------------- MODULE AesdService -----------------------------
(***************************************************************************)
(* The service of server/aesdsocket-start-stop.sh: its scripts             *)
(* aesdchar_load and aesdchar_unload, the kernel module, the node          *)
(* /dev/aesdchar, and the daemon of aesdsocket.c as far as it meets them:  *)
(* it opens the node for its first client and unlinks it at its end.       *)
(*                                                                         *)
(* The scripts run one after the other and take steps; the daemon and its  *)
(* clients run beside them.                                                *)
(***************************************************************************)
EXTENDS Integers

VARIABLES
  script,    \* the step the running script is at, "none" between two scripts
  loaded,    \* whether the module is in the kernel
  node,      \* what is at /dev/aesdchar: "absent", "device", "file"
  daemon,    \* "none", "serving", "ending" (SIGTERM has come), "unlinking"
  fd,        \* what the daemon has open: "none", "device", "file"
  fresh      \* history: the latest script called is a start that found the
             \* service stopped and has not failed to load the module

serviceVars == <<script, loaded, node, daemon, fd, fresh>>

Init ==
  /\ script = "none" /\ loaded = FALSE /\ node = "absent"
  /\ daemon = "none" /\ fd = "none" /\ fresh = TRUE

\* A file that a killed daemon has made may be left.
Stopped == ~loaded /\ node # "device" /\ daemon = "none"

Step(from, to) == script = from /\ script' = to

-----------------------------------------------------------------------------
(***************************************************************************)
(* start.                                                                  *)
(***************************************************************************)
StartSpawnsFirst ==     \* mutant: the daemon before aesdchar_load
  /\ Step("none", "load")
  /\ fresh' = Stopped
  /\ daemon' = IF daemon = "none" THEN "serving" ELSE daemon
  /\ UNCHANGED <<loaded, node, fd>>

Start ==
  /\ Step("none", "load")
  /\ fresh' = Stopped
  /\ UNCHANGED <<loaded, node, daemon, fd>>

\* modprobe, also when the module is loaded already, or insmod.
Load ==
  /\ Step("load", "remove")
  /\ loaded' = TRUE
  /\ UNCHANGED <<node, daemon, fd, fresh>>

\* The module cannot be loaded, or insmod finds it loaded already (a module that
\* lies beside aesdchar_load): aesdchar_load exits, and the start script goes on.
LoadFails ==
  /\ Step("load", "spawn")
  /\ fresh' = FALSE
  /\ UNCHANGED <<loaded, node, daemon, fd>>

RemoveNode ==
  /\ Step("remove", "make")
  /\ node' = "absent"
  /\ UNCHANGED <<loaded, daemon, fd, fresh>>

\* mknod fails when the daemon has created a file there in the meantime; so
\* does the script then (set -e).
MakeNode ==
  /\ Step("make", "spawn")
  /\ node' = IF node = "absent" THEN "device" ELSE node
  /\ UNCHANGED <<loaded, daemon, fd, fresh>>

\* start-stop-daemon -S starts the daemon unless a process of its name is there.
Spawn ==
  /\ Step("spawn", "none")
  /\ daemon' = IF daemon = "none" THEN "serving" ELSE daemon
  /\ UNCHANGED <<loaded, node, fd, fresh>>

-----------------------------------------------------------------------------
(***************************************************************************)
(* stop.                                                                   *)
(***************************************************************************)
Stop ==
  /\ Step("none", "unload")
  /\ fresh' = FALSE
  /\ UNCHANGED <<loaded, node, daemon, fd>>

UnloadKeepsNode ==      \* mutant: the stale node is not removed
  /\ Step("unload", "kill")
  /\ loaded /\ fd # "device"
  /\ loaded' = FALSE
  /\ UNCHANGED <<node, daemon, fd, fresh>>

\* rmmod takes the module when no file of its device is open.
Unload ==
  /\ Step("unload", "unnode")
  /\ loaded /\ fd # "device"
  /\ loaded' = FALSE
  /\ UNCHANGED <<node, daemon, fd, fresh>>

UnloadFailsAndStops ==  \* mutant: the stop script ends with aesdchar_unload
  /\ Step("unload", "none")
  /\ ~loaded \/ fd = "device"
  /\ UNCHANGED <<loaded, node, daemon, fd, fresh>>

\* Else aesdchar_unload exits, and the stop script goes on.
UnloadFails ==
  /\ Step("unload", "kill")
  /\ ~loaded \/ fd = "device"
  /\ UNCHANGED <<loaded, node, daemon, fd, fresh>>

RemoveStaleNode ==
  /\ Step("unnode", "kill")
  /\ node' = "absent"
  /\ UNCHANGED <<loaded, daemon, fd, fresh>>

\* start-stop-daemon -K sends SIGTERM and does not wait for the daemon to end.
Kill ==
  /\ Step("kill", "none")
  /\ daemon' = IF daemon = "serving" THEN "ending" ELSE daemon
  /\ UNCHANGED <<loaded, node, fd, fresh>>

-----------------------------------------------------------------------------
(***************************************************************************)
(* The daemon.                                                             *)
(***************************************************************************)
\* The first client makes main open the node, with O_CREAT; SIGTERM may come
\* between the test of complete_exec and the open.
OpenDevice ==
  /\ daemon \in {"serving", "ending"} /\ fd = "none"
  /\ node = "device" /\ loaded
  /\ fd' = "device"
  /\ UNCHANGED <<script, loaded, node, daemon, fresh>>

OpenFile ==
  /\ daemon \in {"serving", "ending"} /\ fd = "none"
  /\ node # "device"
  /\ fd' = "file" /\ node' = "file"
  /\ UNCHANGED <<script, loaded, daemon, fresh>>

\* A node without its module: open fails and main returns.
OpenFails ==
  /\ daemon \in {"serving", "ending"} /\ fd = "none"
  /\ node = "device" /\ ~loaded
  /\ daemon' = "none"
  /\ UNCHANGED <<script, loaded, node, fd, fresh>>

\* main has joined its threads and closes the descriptor ...
Close ==
  /\ daemon = "ending"
  /\ daemon' = "unlinking" /\ fd' = "none"
  /\ UNCHANGED <<script, loaded, node, fresh>>

\* ... and unlinks /dev/aesdchar, whatever is there by now.
Unlink ==
  /\ daemon = "unlinking"
  /\ daemon' = "none"
  /\ node' = "absent"
  /\ UNCHANGED <<script, loaded, fd, fresh>>

\* main leaves its loop on a failing call, or SIGPIPE ends the process.
Leave ==
  /\ daemon = "serving"
  /\ daemon' = "ending"
  /\ UNCHANGED <<script, loaded, node, fd, fresh>>

Die ==
  /\ daemon \in {"serving", "ending"}
  /\ daemon' = "none" /\ fd' = "none"
  /\ UNCHANGED <<script, loaded, node, fresh>>

-----------------------------------------------------------------------------
ScriptStep == \/ Load \/ LoadFails \/ RemoveNode \/ MakeNode \/ Spawn
              \/ Unload \/ UnloadFails \/ RemoveStaleNode \/ Kill
DaemonEnds == Close \/ Unlink

Next == \/ Start \/ Stop \/ ScriptStep
        \/ OpenDevice \/ OpenFile \/ OpenFails \/ Leave \/ Die \/ DaemonEnds

-----------------------------------------------------------------------------
\* A node never outlives the module whose number it has: whatever calls of
\* start and stop came before, and whatever the daemon has created or unlinked
\* in between, a client finds no dead node but inside aesdchar_unload.
NodeNeedsModule == node = "device" /\ ~loaded => script = "unnode"

\* The daemon of a start that found the service stopped serves the device: its
\* open with O_CREAT never makes a file of /dev/aesdchar, nor does the node
\* vanish under it.
FreshStartServesDevice ==
  fresh /\ daemon # "none" => fd # "file" /\ node = "device" /\ loaded

\* stop is called again and again and start no more: in the end neither daemon,
\* module nor device node is left, though a single stop may leave all three.
\* Assumes that the clients of the daemon go away.
StoppedForGood ==
  <>[](script \notin {"load", "remove", "make", "spawn"}) /\ []<>(script = "unload")
    => <>[]Stopped
=============================================================================
