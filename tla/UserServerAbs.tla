--------------------------- MODULE UserServerAbs ---------------------------
(***************************************************************************)
(* What a userServer of src/tailfs/tailfsimpl/remote_impl.go promises to   *)
(* the FileSystemForRemote that owns it, in the terms a Dial can observe:  *)
(* whether s.addr is set, whether a child process listens at it, whether  *)
(* Close has been called and whether runLoop has returned.                *)
(*                                                                         *)
(* UserServer refines this module (the run, the pipes, the backoff and the *)
(* children nobody publishes are hidden); RemoteFS's view of each of its  *)
(* userServers refines it as well.                                         *)
(***************************************************************************)
VARIABLES
  closed,     \* s.closed
  loopDone,   \* runLoop has returned
  addr,       \* s.addr # ""
  up          \* the child that printed s.addr is still running

vars == <<closed, loopDone, addr, up>>

Init ==
  /\ closed = FALSE
  /\ loopDone = FALSE
  /\ addr = FALSE
  /\ up = FALSE

(* run sets s.addr to the line its new child printed (341-362): only      *)
(* while runLoop runs, and only once the last child published has exited  *)
(* (run waits for it, 363).  Close does not stop this.  The child may    *)
(* have exited already after printing, so the address is stale at once.   *)
Publish ==
  /\ ~loopDone /\ ~up
  /\ addr' = TRUE /\ up' \in BOOLEAN
  /\ UNCHANGED <<closed, loopDone>>

(* The published child exits, or is killed (259-260, 363). *)
ChildExit ==
  /\ up
  /\ up' = FALSE
  /\ UNCHANGED <<closed, loopDone, addr>>

(* run sets s.addr to "" when its child exits before printing (360-362). *)
ClearAddr ==
  /\ ~loopDone /\ ~up /\ addr
  /\ addr' = FALSE
  /\ UNCHANGED <<closed, loopDone, up>>

(* Close (254-264): set closed; the kill may take the published child.    *)
(* Calling it again is harmless.                                           *)
Close ==
  /\ closed' = TRUE
  /\ up' \in {up, FALSE}
  /\ UNCHANGED <<loopDone, addr>>

(* runLoop returns once it sees closed between two runs (270-276).  The  *)
(* published child may still run: Close's kill of a child started through *)
(* sudo ends sudo only.                                                    *)
LoopExit ==
  /\ closed /\ ~loopDone
  /\ loopDone' = TRUE
  /\ UNCHANGED <<closed, addr, up>>

Next == Publish \/ ChildExit \/ ClearAddr \/ Close \/ LoopExit

Spec == Init /\ [][Next]_vars

=============================================================================
