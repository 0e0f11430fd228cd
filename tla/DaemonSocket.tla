---------------------------- MODULE DaemonSocket ----------------------------
(***************************************************************************)
(* One socket path, the daemons that replace each other behind it, and the *)
(* runs that ask for a preparation.  A daemon that is still reconciling,   *)
(* or busy, has bound the path and does not answer within the second a     *)
(* client waits, so another may take its place.  The inode of a socket is  *)
(* the daemon that bound it.                                               *)
(***************************************************************************)
EXTENDS Integers, FiniteSets

CONSTANTS
  Asking,    \* litci run processes
  Daemons,   \* litci daemon processes
  Nobody     \* no inode

VARIABLES
  path,    \* the inode under daemon/v1.sock
  d,       \* where a daemon is
  guard,   \* SocketGuard: the inode it took for its own
  ask      \* where a run is in prepare

daemonVars == <<path, d, guard, ask>>

Init ==
  /\ path = Nobody
  /\ d = [x \in Daemons |-> "idle"]
  /\ guard = [x \in Daemons |-> Nobody]
  /\ ask = [c \in Asking |-> "ask"]

\* A serving daemon agrees, or refuses: it has another version, or cannot
\* refresh the repository; or it takes longer than a second.
Responses == {"ok", "refused"}
\* What request finds at the path.
Answers == IF path \in Daemons /\ d[path] = "serving" THEN Responses ELSE {"refused"}
Move(x, label) == d' = [d EXCEPT ![x] = label]

\* --------------------------------------------------------------- prepare
Ask(c) ==
  /\ ask[c] = "ask"
  /\ \E answer \in Answers : ask' = [ask EXCEPT ![c] = IF answer = "ok" THEN "go" ELSE "start"]
  /\ UNCHANGED <<path, d, guard>>
\* start() spawns litci daemon, or cannot.
StartDaemon(c) ==
  /\ ask[c] = "start"
  /\ \/ \E x \in Daemons : d[x] = "idle" /\ Move(x, "starting") /\ ask' = [ask EXCEPT ![c] = "wait"]
     \/ ask' = [ask EXCEPT ![c] = "go"] /\ UNCHANGED d
  /\ UNCHANGED <<path, guard>>
\* Asked again every 25 ms; START_WAIT ends it.
AskAgain(c) ==
  /\ ask[c] = "wait"
  /\ "ok" \in Answers
  /\ ask' = [ask EXCEPT ![c] = "go"]
  /\ UNCHANGED <<path, d, guard>>
GiveUp(c) ==
  /\ ask[c] = "wait"
  /\ ask' = [ask EXCEPT ![c] = "go"]
  /\ UNCHANGED <<path, d, guard>>

\* ----------------------------------------------------------- serve_async
LookAtSocket(x) ==
  /\ d[x] = "starting"
  /\ IF path = Nobody THEN Move(x, "bind")
     ELSE \E answer \in Answers : Move(x, IF answer = "ok" THEN "exited" ELSE "unlink")
  /\ UNCHANGED <<path, guard, ask>>
\* remove_file of whatever is there by now; nothing there is an error.
RemoveStale(x) ==
  /\ d[x] = "unlink"
  /\ path' = Nobody
  /\ Move(x, IF path = Nobody THEN "exited" ELSE "bind")
  /\ UNCHANGED <<guard, ask>>
Bind(x) ==
  /\ d[x] = "bind"
  /\ IF path = Nobody THEN path' = x /\ Move(x, "secure") ELSE UNCHANGED path /\ Move(x, "exited")
  /\ UNCHANGED <<guard, ask>>
\* set_permissions and metadata go by the path, which may be another's now.
Secure(x) ==
  /\ d[x] = "secure"
  /\ guard' = [guard EXCEPT ![x] = path]
  /\ Move(x, IF path = Nobody THEN "exited" ELSE "reconcile")
  /\ UNCHANGED <<path, ask>>
Reconcile(x) ==
  /\ d[x] = "reconcile"
  /\ Move(x, "serving")
  /\ UNCHANGED <<path, guard, ask>>
MutLeave(x) ==   \* idle is measured on the socket, not on what is accepted
  /\ d[x] = "serving" /\ path = x
  /\ Move(x, "leaving")
  /\ UNCHANGED <<path, guard, ask>>
\* IDLE_TIMEOUT since the last client, or a Shutdown request.
Leave(x) ==
  /\ d[x] = "serving"
  /\ Move(x, "leaving")
  /\ UNCHANGED <<path, guard, ask>>
\* SocketGuard::drop looks, and then removes.
DropGuard(x) ==
  /\ d[x] = "leaving"
  /\ Move(x, IF path # Nobody /\ path = guard[x] THEN "removing" ELSE "exited")
  /\ UNCHANGED <<path, guard, ask>>
RemoveSocket(x) ==
  /\ d[x] = "removing"
  /\ path' = Nobody
  /\ Move(x, "exited")
  /\ UNCHANGED <<guard, ask>>
\* A killed daemon leaves its socket; nobody answers behind it.
Kill(x) ==
  /\ d[x] \notin {"idle", "exited"}
  /\ Move(x, "exited")
  /\ UNCHANGED <<path, guard, ask>>

Daemon(x) ==
  \/ LookAtSocket(x) \/ RemoveStale(x) \/ Bind(x) \/ Secure(x) \/ Reconcile(x) \/ DropGuard(x) \/ RemoveSocket(x)
Client(c) == Ask(c) \/ StartDaemon(c) \/ AskAgain(c) \/ GiveUp(c)
Next ==
  \/ \E c \in Asking : Client(c)
  \/ \E x \in Daemons : Daemon(x) \/ Leave(x) \/ Kill(x)
Fairness ==
  /\ \A c \in Asking : WF_daemonVars(Client(c))
  /\ \A x \in Daemons : WF_daemonVars(Daemon(x)) /\ WF_daemonVars(Leave(x))
Spec == Init /\ [][Next]_daemonVars /\ Fairness

\* ------------------------------------------------------------ properties
\* "without making the foreground command authoritative on daemon
\* availability": every run goes on, and every daemon ends, above all one
\* whose socket another has replaced (prepare, serve_async's idle timeout).
DaemonsSettle ==
  /\ \A c \in Asking : <>(ask[c] = "go")
  /\ \A x \in Daemons : [](d[x] = "serving" /\ path # x => <>(d[x] = "exited"))
=============================================================================
