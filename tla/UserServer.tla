---------------------------- MODULE UserServer ----------------------------
(***************************************************************************)
(* One userServer of src/tailfs/tailfsimpl/remote_impl.go: the goroutine   *)
(* running runLoop (and run, which it calls), a caller of Close, and the   *)
(* child processes ("tailscaled serve-tailfs") that run launches.          *)
(*                                                                         *)
(* The fields guarded by userServer.mu (cmd, addr, closed) are variables;  *)
(* each critical section of the code is one step.  A child process is a   *)
(* slot of the constant set Pids; the address a child prints is modelled  *)
(* by the child's own identifier, NoAddr is the empty string.              *)
(* Time is in milliseconds, as in the code's backoff arithmetic.           *)
(***************************************************************************)
EXTENDS Integers, FiniteSets

CONSTANTS
  Pids,           \* slots for child processes (reused once unreferenced)
  Root,           \* the uid 0 account
  Owner,          \* share.As, the account the shares belong to
  DaemonUser,     \* a non-root account tailscaled may run as
  NoCmd,          \* s.cmd == nil
  NoAddr,         \* s.addr == ""
  MaxSleepTime,   \* maxSleepTime, 30 * time.Second in milliseconds
  RunDurations    \* how long one call of run() may take before it returns

ASSUME DaemonUser # Root
ASSUME MaxSleepTime \in Nat \ {0} /\ RunDurations \subseteq Nat
ASSUME NoCmd \notin Pids /\ NoAddr \notin Pids

VARIABLES
  daemonUid,            \* the uid tailscaled runs as (fixed for a run)
  pc,                   \* where the runLoop goroutine is
  cur,                  \* run()'s local cmd
  consecutiveFailures,  \* runLoop's local of the same name
  sleepTime,            \* the backoff runLoop last slept
  cmd, addr, closed,    \* the fields guarded by userServer.mu
  cpc,                  \* where the caller of Close is
  closeCmd,             \* Close()'s local cmd
  child                 \* child[p]: process p and the sudo running it

vars == <<daemonUid, pc, cur, consecutiveFailures, sleepTime,
          cmd, addr, closed, cpc, closeCmd, child>>

ChildStates == {"none", "running", "exited"}
\* What the child has written to stdout: nothing yet, its address line,
\* or output on which bufio.Scanner fails (a line over its buffer size).
Outputs == {"empty", "line", "junk"}

(***************************************************************************)
(* The backoff of runLoop (lines 287-290).  The code computes             *)
(* time.Duration(2^n) * time.Millisecond; that product fits in an int64   *)
(* only for n =< MaxExponent, beyond which SleepFor no longer describes   *)
(* the code (BackoffNoOverflow checks n never gets there).                 *)
(***************************************************************************)
MaxExponent == 43
CapExponent == CHOOSE n \in 0..30 : 2^n >= MaxSleepTime
                                           /\ \A m \in 0..n-1 : 2^m < MaxSleepTime
\* Mutation: the cap on the sleep dropped (288-290).
SleepForUncapped(n) == 2^n

SleepFor(n) ==
  IF n >= CapExponent THEN MaxSleepTime ELSE 2^n

\* Slots a new process may take: not running and not named by any pointer.
FreePids == { p \in Pids : child[p].state # "running" /\ child[p].sudo # "running"
                           /\ p \notin {cmd, addr, closeCmd} }

Running == { p \in Pids : child[p].state = "running" }

(***************************************************************************)
(* cmd.Process is the sudo process when the child was started through     *)
(* sudo (sudo = "running" or "exited"), else the child itself (sudo =      *)
(* "none").  sudo exits when its child does; it cannot catch SIGKILL, so  *)
(* killing it leaves the child running.                                    *)
(***************************************************************************)
ProcessExited(p) ==
  IF child[p].sudo = "none" THEN child[p].state = "exited"
                            ELSE child[p].sudo = "exited"

\* Every end of the stdout pipe the child may write to is closed.
StdoutClosed(p) == child[p].state = "exited" /\ child[p].sudo # "running"

Init ==
  /\ daemonUid \in {Root, DaemonUser}
  /\ pc = "loop"
  /\ cur = NoCmd
  /\ consecutiveFailures = 0
  /\ sleepTime = 0
  /\ cmd = NoCmd
  /\ addr = NoAddr
  /\ closed = FALSE
  /\ cpc = "idle"
  /\ closeCmd = NoCmd
  /\ child = [p \in Pids |-> [state |-> "none", uid |-> Root, out |-> "empty",
                              sudo |-> "none"]]

(***************************************************************************)
(* canSudo (380-387): "sudo -n -u user executable -h" under a 3 s timeout; *)
(* any error, the timeout included, answers FALSE.  Whether it succeeds    *)
(* depends on sudoers and on time, so each probe may answer either way.    *)
(***************************************************************************)
CanSudoAnswers == BOOLEAN

\* Mutation: assertNotRoot checks only that the current user is known.
AssertNotRootFailsNoUidCheck(currentUserOk) == ~currentUserOk

(***************************************************************************)
(* assertNotRoot (395-404) fails if user.Current fails or the uid is "0".  *)
(***************************************************************************)
AssertNotRootFails(currentUserOk) == ~currentUserOk \/ daemonUid = Root

(***************************************************************************)
(* runLoop: read closed under the read lock; return if set (270-277).      *)
(***************************************************************************)
RunLoopCheckClosed ==
  /\ pc = "loop"
  /\ pc' = IF closed THEN "done" ELSE "run"
  /\ UNCHANGED <<daemonUid, cur, consecutiveFailures, sleepTime, cmd, addr,
                 closed, cpc, closeCmd, child>>

(***************************************************************************)
(* run() up to cmd.Start (299-336).  canSudo is a probe with a timeout     *)
(* whose answer may differ between calls; without sudo, assertNotRoot      *)
(* fails if user.Current fails or the daemon is root.  Creating the pipes *)
(* or starting the process may fail too.  Every failure returns an error  *)
(* to runLoop, which backs off.  With every slot taken, only the failing  *)
(* outcomes remain (a bound of the model, Pids).                           *)
(***************************************************************************)
\* Mutation: runLoop gives up when assertNotRoot fails instead of retrying.
RunStartRootErrorFatal ==
  /\ pc = "run"
  /\ \E canSudo \in CanSudoAnswers, currentUserOk \in BOOLEAN :
       LET notRootErr == ~canSudo /\ AssertNotRootFails(currentUserOk)
           uid        == IF canSudo THEN Owner ELSE daemonUid
       IN  \/ /\ notRootErr
              /\ pc' = "done"
              /\ UNCHANGED <<cur, child>>
           \/ /\ ~notRootErr
              /\ pc' = "backoff"
              /\ UNCHANGED <<cur, child>>
           \/ /\ ~notRootErr
              /\ \E p \in FreePids :
                   /\ child' = [child EXCEPT ![p] = [state |-> "running", uid |-> uid,
                                                     out |-> "empty",
                                                     sudo |-> IF canSudo THEN "running"
                                                                         ELSE "none"]]
                   /\ cur' = p
                   /\ pc' = "setcmd"
  /\ UNCHANGED <<daemonUid, consecutiveFailures, sleepTime, cmd, addr, closed,
                 cpc, closeCmd>>

RunStart ==
  /\ pc = "run"
  /\ \E canSudo \in CanSudoAnswers, currentUserOk \in BOOLEAN :
       LET notRootErr == ~canSudo /\ AssertNotRootFails(currentUserOk)
           uid        == IF canSudo THEN Owner ELSE daemonUid
       IN  \/ /\ pc' = "backoff"                 \* assertNotRoot, pipe or start error
              /\ UNCHANGED <<cur, child>>
           \/ /\ ~notRootErr
              /\ \E p \in FreePids :
                   /\ child' = [child EXCEPT ![p] = [state |-> "running", uid |-> uid,
                                                     out |-> "empty",
                                                     sudo |-> IF canSudo THEN "running"
                                                                         ELSE "none"]]
                   /\ cur' = p
                   /\ pc' = "setcmd"
  /\ UNCHANGED <<daemonUid, consecutiveFailures, sleepTime, cmd, addr, closed,
                 cpc, closeCmd>>

\* s.cmd = cmd under the write lock (337-339).
RunSetCmd ==
  /\ pc = "setcmd"
  /\ cmd' = cur
  /\ pc' = "read"
  /\ UNCHANGED <<daemonUid, cur, consecutiveFailures, sleepTime, addr, closed,
                 cpc, closeCmd, child>>

(***************************************************************************)
(* Read the first line of stdout (341-362).  Scan blocks until a line, an  *)
(* error or EOF.  On an error run returns at once, neither waiting for nor *)
(* killing the child.  Otherwise s.addr is set to the text scanned, which  *)
(* is "" when the child exited before writing a line.                      *)
(***************************************************************************)
RunReadAddr ==
  /\ pc = "read"
  /\ \/ /\ child[cur].out = "line"
        /\ addr' = cur
        /\ pc' = "wait"
     \/ /\ child[cur].out = "junk"
        /\ pc' = "backoff"
        /\ UNCHANGED addr
     \/ /\ child[cur].out = "empty"
        /\ StdoutClosed(cur)
        /\ addr' = NoAddr
        /\ pc' = "wait"
  /\ UNCHANGED <<daemonUid, cur, consecutiveFailures, sleepTime, cmd, closed,
                 cpc, closeCmd, child>>

RunWait ==
  /\ pc = "wait"
  /\ ProcessExited(cur)
  /\ pc' = "backoff"
  /\ UNCHANGED <<daemonUid, cur, consecutiveFailures, sleepTime, cmd, addr,
                 closed, cpc, closeCmd, child>>

(***************************************************************************)
(* runLoop after run() returns (279-292): the time since the last failure *)
(* is the last sleep plus how long run() took; the failure count grows if  *)
(* that is under maxSleepTime and restarts at 1 otherwise; then sleep.     *)
(* The zero timeOfLastFailure of the first failure gives count 1, as does  *)
(* sleepTime = 0 with consecutiveFailures = 0 here.                        *)
(***************************************************************************)
\* Mutation: the reset of consecutiveFailures to 1 dropped (284-286).
RunLoopBackoffNoReset ==
  /\ pc = "backoff"
  /\ consecutiveFailures' = consecutiveFailures + 1
  /\ sleepTime' = SleepFor(consecutiveFailures + 1)
  /\ pc' = "loop"
  /\ UNCHANGED <<daemonUid, cur, cmd, addr, closed, cpc, closeCmd, child>>

RunLoopBackoff ==
  /\ pc = "backoff"
  /\ \E d \in RunDurations :
       LET timeSinceLastFailure == sleepTime + d
           n == IF timeSinceLastFailure < MaxSleepTime
                THEN consecutiveFailures + 1 ELSE 1
       IN  /\ consecutiveFailures' = n
           /\ sleepTime' = SleepFor(n)
  /\ pc' = "loop"
  /\ UNCHANGED <<daemonUid, cur, cmd, addr, closed, cpc, closeCmd, child>>

(***************************************************************************)
(* Close (254-264): under the lock read cmd and set closed; after the      *)
(* unlock kill that process if there is one: the child, or the sudo that *)
(* runs it, whose child then keeps running.                                *)
(***************************************************************************)
CloseLock ==
  /\ cpc = "idle"
  /\ closeCmd' = cmd
  /\ closed' = TRUE
  /\ cpc' = "kill"
  /\ UNCHANGED <<daemonUid, pc, cur, consecutiveFailures, sleepTime, cmd, addr,
                 child>>

CloseKill ==
  /\ cpc = "kill"
  /\ child' = CASE closeCmd = NoCmd -> child
               [] child[closeCmd].sudo = "running" ->
                    [child EXCEPT ![closeCmd].sudo = "exited"]
               [] child[closeCmd].sudo = "none" /\ child[closeCmd].state = "running" ->
                    [child EXCEPT ![closeCmd].state = "exited"]
               [] OTHER -> child
  /\ cpc' = "done"
  /\ closeCmd' = NoCmd
  /\ UNCHANGED <<daemonUid, pc, cur, consecutiveFailures, sleepTime, cmd, addr,
                 closed>>

(***************************************************************************)
(* The child process: it prints its address first (or output the scanner  *)
(* rejects), and may exit at any time.                                     *)
(***************************************************************************)
ChildWrites(p) ==
  /\ child[p].state = "running"
  /\ child[p].out = "empty"
  /\ \E o \in Outputs \ {"empty"} : child' = [child EXCEPT ![p].out = o]
  /\ UNCHANGED <<daemonUid, pc, cur, consecutiveFailures, sleepTime, cmd, addr,
                 closed, cpc, closeCmd>>

ChildExits(p) ==
  /\ child[p].state = "running"
  /\ child' = [child EXCEPT ![p].state = "exited",
                            ![p].sudo = IF @ = "running" THEN "exited" ELSE @]
  /\ UNCHANGED <<daemonUid, pc, cur, consecutiveFailures, sleepTime, cmd, addr,
                 closed, cpc, closeCmd>>

RunLoop ==
  \/ RunLoopCheckClosed \/ RunStart \/ RunSetCmd \/ RunReadAddr \/ RunWait
  \/ RunLoopBackoff

Next ==
  \/ RunLoop
  \/ CloseLock \/ CloseKill
  \/ \E p \in Pids : ChildWrites(p) \/ ChildExits(p)

(***************************************************************************)
(* The runLoop goroutine is scheduled by the Go runtime, which eventually  *)
(* runs every runnable goroutine, and so is a Close that has begun.  No    *)
(* one need ever call Close (SetShares may never be called again), and the *)
(* child processes get no fairness: they may run forever or never print.   *)
(***************************************************************************)
Fairness == WF_vars(RunLoop) /\ WF_vars(CloseKill)

Spec == Init /\ [][Next]_vars /\ Fairness

-----------------------------------------------------------------------------
TypeOK ==
  /\ daemonUid \in {Root, DaemonUser}
  /\ pc \in {"loop", "run", "setcmd", "read", "wait", "backoff", "done"}
  /\ cur \in Pids \cup {NoCmd}
  /\ cmd \in Pids \cup {NoCmd}
  /\ closeCmd \in Pids \cup {NoCmd}
  /\ addr \in Pids \cup {NoAddr}
  /\ closed \in BOOLEAN
  /\ cpc \in {"idle", "kill", "done"}
  /\ consecutiveFailures \in 0..MaxExponent + 1
  /\ sleepTime \in 0..MaxSleepTime
  /\ child \in [Pids -> [state : ChildStates, uid : {Root, Owner, DaemonUser},
                         out : Outputs, sudo : ChildStates]]

(***************************************************************************)
(* I2: no child process serving the shares ever runs as root, whatever the *)
(* answers of the sudo probe and of user.Current (run, 306-321).           *)
(***************************************************************************)
NeverServesAsRoot ==
  \A p \in Running : child[p].uid # Root

(***************************************************************************)
(* The backoff exponent never reaches the value at which                   *)
(* time.Duration(math.Pow(2, n)) * time.Millisecond overflows int64: the  *)
(* reset to 1 when failures are maxSleepTime apart (282-286) must keep it  *)
(* bounded even when the child crashes at once, forever.                   *)
(***************************************************************************)
BackoffNoOverflow ==
  consecutiveFailures =< MaxExponent

(***************************************************************************)
(* A supervisor never gives up while not stopped (spec 4.2 and 7(d)):     *)
(* whatever run() fails with, including assertNotRoot, runLoop comes back *)
(* to run() again, unless Close was called.                                *)
(***************************************************************************)
RetriesUntilClosed ==
  ~closed ~> (closed \/ pc \in {"run", "setcmd", "read", "wait"})

-----------------------------------------------------------------------------
(***************************************************************************)
(* Refinement: the userServer keeps the promise of UserServerAbs.  The     *)
(* published address is "up" when the child it names still runs; runLoop *)
(* has returned when pc is "done".  Children that never printed an        *)
(* address, the pipes and the backoff are internal.                        *)
(***************************************************************************)
Abs == INSTANCE UserServerAbs
         WITH closed   <- closed,
              loopDone <- pc = "done",
              addr     <- addr # NoAddr,
              up       <- addr \in Pids /\ child[addr].state = "running"

-----------------------------------------------------------------------------
(***************************************************************************)
(* Properties the spec states and the code does not keep.                  *)
(***************************************************************************)

(* Spec 4.2 and 5: once runLoop has returned after Close, the child whose *)
(* address it published no longer runs (the stop is a forceful kill).     *)
ReturnedLoopLeftNoServer ==
  pc = "done" /\ cpc = "done" => ~(addr \in Pids /\ child[addr].state = "running")

(* Spec 4.2, Stopped: once Close has returned, no child process of the     *)
(* server runs (Close kills the running one, runLoop starts no other).     *)
StoppedServerHasNoChild ==
  cpc = "done" => Running = {}

(* At most one child process per userServer at any time (spec I1 and 4.2): *)
(* run() does not return while its child runs.                             *)
AtMostOneChild ==
  Cardinality(Running) =< 1

(* Spec 4.1: a crashed child that is not yet restarted leaves no address; *)
(* a published address always names a running child.                      *)
AddrNamesRunningChild ==
  addr # NoAddr => child[addr].state = "running"

(* Spec 8: the address changes only to a line read from a freshly started *)
(* child; a child that exits without writing leaves it untouched.          *)
AddrOnlyFromLine ==
  [][addr' # addr => addr' \in Pids /\ child[addr'].out = "line"]_vars

=============================================================================
