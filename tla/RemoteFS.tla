----------------------------- MODULE RemoteFS -----------------------------
(***************************************************************************)
(* FileSystemForRemote of src/tailfs/tailfsimpl/remote_impl.go: the        *)
(* generation of shares, children and userServers guarded by s.mu, the     *)
(* coordinator calling SetShares and Close, requests served by             *)
(* ServeHTTPWithPerms whose child transports Dial the share's backend, and *)
(* every userServer a SetShares builds, seen from outside: whether its     *)
(* address is set, whether a child listens there, whether it is closed.    *)
(* UserServer models one userServer in detail.                             *)
(*                                                                         *)
(* A generation is the set of maps one SetShares or Close installs; gen    *)
(* numbers them (a name for map identity, not a variable of the code).     *)
(* A userServer is <<g, o>>: the one generation g built for owner o; a     *)
(* child (compositedav.Child) is named by its share and its generation.   *)
(***************************************************************************)
EXTENDS Integers, FiniteSets, Functions

CONSTANTS
  ShareNames,     \* share.Name values
  Owners,         \* share.As values
  Configs,        \* share maps SetShares may be given: [names -> owner]
  AllowShareAs,   \* tailfs.AllowShareAs(): run a userServer per owner
  Requests,       \* concurrent ServeHTTPWithPerms calls
  MaxGen,         \* bound on the generations installed (SetShares, Close)
  None, ReadOnly, ReadWrite,   \* tailfs.Permission values
  NoServer        \* no userServer found

ASSUME AllowShareAs \in BOOLEAN /\ MaxGen \in Nat \ {0}
ASSUME \A c \in Configs : DOMAIN c \subseteq ShareNames /\ Range(c) \subseteq Owners

Perms == {None, ReadOnly, ReadWrite}
Sids == (1..MaxGen) \X Owners
Responses == {"none", "404", "403", "502", "ok"}

VARIABLES
  shares, children, userServers, fileServerAddr,  \* guarded by s.mu
  gen,            \* number of the installed generation
  srv,            \* srv[sid]: the userServer sid as its fields show it
  cpc,            \* where the coordinator is in SetShares / Close
  newShares,      \* SetShares' argument while it runs
  newServers,     \* SetShares' local userServers
  toStop,         \* userServers stopUserServers has still to Close
  requested,      \* the share map last passed to SetShares
  req             \* req[r]: the state of request r

vars == <<shares, children, userServers, fileServerAddr, gen, srv, cpc,
          newShares, newServers, toStop, requested, req>>

NoShares == [n \in {} |-> None]

Init ==
  /\ shares = NoShares
  /\ children = NoShares
  /\ userServers = [o \in {} |-> NoServer]
  /\ fileServerAddr = FALSE
  /\ gen = 0
  /\ srv = [sid \in Sids |-> [built |-> FALSE, shares |-> {}, closed |-> FALSE,
                              loopDone |-> FALSE, addr |-> FALSE, up |-> FALSE]]
  /\ cpc = "idle"
  /\ newShares = NoShares
  /\ newServers = [o \in {} |-> NoServer]
  /\ toStop = {}
  /\ requested = NoShares
  /\ req = [r \in Requests |-> [pc |-> "idle", share |-> CHOOSE n \in ShareNames : TRUE,
                                write |-> FALSE, perm |-> None, child |-> 0,
                                owner |-> NoServer, server |-> NoServer,
                                fsAddr |-> FALSE, resp |-> "none"]]

(***************************************************************************)
(* userServer sid as UserServerAbs sees it: each step of a userServer     *)
(* below is one of its actions, the published child taken as alive when   *)
(* it is published (one that is already gone is a publish and an exit).   *)
(***************************************************************************)
SrvAbs(sid) == INSTANCE UserServerAbs
                 WITH closed   <- srv[sid].closed,
                      loopDone <- srv[sid].loopDone,
                      addr     <- srv[sid].addr,
                      up       <- srv[sid].up

-----------------------------------------------------------------------------
(***************************************************************************)
(* The coordinator.                                                        *)
(***************************************************************************)

(* Mutation: a share is appended to its owner's userServer only when that *)
(* userServer is created (p.shares = append(...) inside "if !found").     *)
SetSharesBuildFirstShareOnly ==
  /\ cpc = "idle"
  /\ gen < MaxGen
  /\ \E cfg \in Configs :
       /\ requested' = cfg
       /\ newServers' = IF AllowShareAs
                         THEN [o \in Range(cfg) |-> <<gen + 1, o>>]
                         ELSE [o \in {} |-> NoServer]
       /\ srv' = [sid \in Sids |->
                    IF AllowShareAs /\ sid[1] = gen + 1 /\ sid[2] \in Range(cfg)
                    THEN [srv[sid] EXCEPT !.built = TRUE,
                            !.shares = {CHOOSE n \in DOMAIN cfg : cfg[n] = sid[2]}]
                    ELSE srv[sid]]
       /\ newShares' = cfg
       /\ cpc' = "install"
  /\ UNCHANGED <<shares, children, userServers, fileServerAddr, gen, toStop, req>>

(* Mutation: userServers keyed by share.Name instead of share.As (80, 87). *)
SetSharesBuildKeyByName ==
  /\ cpc = "idle"
  /\ gen < MaxGen
  /\ \E cfg \in Configs :
       /\ requested' = cfg
       /\ \/ /\ AllowShareAs                      \* os.Executable failed
             /\ UNCHANGED <<cpc, newShares, newServers, srv>>
          \/ /\ newServers' = IF AllowShareAs
                              THEN [n \in DOMAIN cfg |-> <<gen + 1, n>>]
                              ELSE [o \in {} |-> NoServer]
             /\ srv' = [sid \in Sids |->
                          IF AllowShareAs /\ sid[1] = gen + 1 /\ sid[2] \in Range(cfg)
                          THEN [srv[sid] EXCEPT !.built = TRUE,
                                  !.shares = {n \in DOMAIN cfg : cfg[n] = sid[2]}]
                          ELSE srv[sid]]
             /\ newShares' = cfg
             /\ cpc' = "install"
  /\ UNCHANGED <<shares, children, userServers, fileServerAddr, gen, toStop, req>>

(* SetShares before it takes the lock (68-99): with AllowShareAs, find the *)
(* executable (returning at once if that fails), build one userServer per  *)
(* owner holding that owner's shares and start its runLoop; build one     *)
(* child per share.                                                        *)
SetSharesBuild ==
  /\ cpc = "idle"
  /\ gen < MaxGen
  /\ \E cfg \in Configs :
       /\ requested' = cfg
       /\ \/ /\ AllowShareAs                      \* os.Executable failed
             /\ UNCHANGED <<cpc, newShares, newServers, srv>>
          \/ /\ newServers' = IF AllowShareAs
                              THEN [o \in Range(cfg) |-> <<gen + 1, o>>]
                              ELSE [o \in {} |-> NoServer]
             /\ srv' = [sid \in Sids |->
                          IF AllowShareAs /\ sid[1] = gen + 1 /\ sid[2] \in Range(cfg)
                          THEN [srv[sid] EXCEPT !.built = TRUE,
                                  !.shares = {n \in DOMAIN cfg : cfg[n] = sid[2]}]
                          ELSE srv[sid]]
             /\ newShares' = cfg
             /\ cpc' = "install"
  /\ UNCHANGED <<shares, children, userServers, fileServerAddr, gen, toStop, req>>

(* Mutation: the new children are labelled with the old generation.      *)
SetSharesInstallOffByOne ==
  /\ cpc = "install"
  /\ shares' = newShares
  /\ children' = [n \in DOMAIN newShares |-> gen]
  /\ userServers' = newServers
  /\ toStop' = Range(userServers)
  /\ gen' = gen + 1
  /\ cpc' = "stop"
  /\ UNCHANGED <<fileServerAddr, srv, newShares, newServers, requested, req>>

(* SetShares under the write lock (101-107): install the new generation,  *)
(* keeping the old userServers to stop.                                    *)
SetSharesInstall ==
  /\ cpc = "install"
  /\ shares' = newShares
  /\ children' = [n \in DOMAIN newShares |-> gen + 1]
  /\ userServers' = newServers
  /\ toStop' = Range(userServers)
  /\ gen' = gen + 1
  /\ cpc' = "stop"
  /\ UNCHANGED <<fileServerAddr, srv, newShares, newServers, requested, req>>

(* Mutation: Close forgets to empty s.children.                           *)
CloseFSKeepChildren ==
  /\ cpc = "idle"
  /\ gen < MaxGen
  /\ userServers' = [o \in {} |-> NoServer]
  /\ toStop' = Range(userServers)
  /\ gen' = gen + 1
  /\ cpc' = "stop"
  /\ UNCHANGED <<shares, children, fileServerAddr, srv, newShares, newServers, requested, req>>

(* Close of FileSystemForRemote under the write lock (224-230): empty the *)
(* children and userServers; s.shares is left as it is.                   *)
CloseFS ==
  /\ cpc = "idle"
  /\ gen < MaxGen
  /\ children' = NoShares
  /\ userServers' = [o \in {} |-> NoServer]
  /\ toStop' = Range(userServers)
  /\ gen' = gen + 1
  /\ cpc' = "stop"
  /\ UNCHANGED <<shares, fileServerAddr, srv, newShares, newServers, requested, req>>

(* Mutation: stopUserServers is passed s.userServers, the new map.         *)
StopUserServerNewMap ==
  /\ cpc = "stop"
  /\ \E sid \in Range(userServers) \cup toStop :
       /\ srv' = [srv EXCEPT ![sid].closed = TRUE, ![sid].up = FALSE]
       /\ toStop' = toStop \ {sid}
  /\ UNCHANGED <<shares, children, userServers, fileServerAddr, gen, cpc,
                 newShares, newServers, requested, req>>

(* Mutation: stopUserServers returns at the first Close error, which Kill  *)
(* gives when the server's child has already exited.                       *)
StopUserServerAbortOnError ==
  /\ cpc = "stop"
  /\ \E sid \in toStop :
       /\ srv' = [srv EXCEPT ![sid].closed = TRUE, ![sid].up = FALSE]
       /\ toStop' = IF srv[sid].up THEN toStop \ {sid} ELSE {}
  /\ UNCHANGED <<shares, children, userServers, fileServerAddr, gen, cpc,
                 newShares, newServers, requested, req>>

(* stopUserServers (209-215): Close one old userServer (254-264): set     *)
(* closed and kill its current child, which may miss the published one    *)
(* (UserServerAbs!Close); an error is only logged.                         *)
StopUserServer ==
  /\ cpc = "stop"
  /\ \E sid \in toStop :
       /\ \E kill \in BOOLEAN :
            srv' = [srv EXCEPT ![sid].closed = TRUE,
                               ![sid].up = srv[sid].up /\ ~kill]
       /\ SrvAbs(sid)!Close
       /\ toStop' = toStop \ {sid}
  /\ UNCHANGED <<shares, children, userServers, fileServerAddr, gen, cpc,
                 newShares, newServers, requested, req>>

(* closeChildren (217-221) once every old userServer is closed: closing   *)
(* idle connections changes nothing a request can observe.                 *)
StopDone ==
  /\ cpc = "stop"
  /\ toStop = {}
  /\ cpc' = "idle"
  /\ UNCHANGED <<shares, children, userServers, fileServerAddr, gen, srv,
                 newShares, newServers, toStop, requested, req>>

(* SetFileServerAddr (61-65). *)
SetFileServerAddr ==
  /\ ~fileServerAddr
  /\ fileServerAddr' = TRUE
  /\ UNCHANGED <<shares, children, userServers, gen, srv, cpc, newShares,
                 newServers, toStop, requested, req>>

-----------------------------------------------------------------------------
(***************************************************************************)
(* A userServer from outside (266-364, UserServer in detail): its steps    *)
(* are those of UserServerAbs, which UserServer refines.  While its        *)
(* runLoop has not returned it may publish an address, even after Close  *)
(* (runLoop checks closed only between runs); the child may exit, leaving *)
(* the address set; a child that exits before printing sets it to "".     *)
(***************************************************************************)
SrvPublish(sid) ==
  /\ srv[sid].built
  /\ srv' = [srv EXCEPT ![sid].addr = TRUE, ![sid].up = TRUE]
  /\ SrvAbs(sid)!Publish

SrvChildExit(sid) ==
  /\ srv' = [srv EXCEPT ![sid].up = FALSE]
  /\ SrvAbs(sid)!ChildExit

SrvEmptyAddr(sid) ==
  /\ srv[sid].built
  /\ srv' = [srv EXCEPT ![sid].addr = FALSE]
  /\ SrvAbs(sid)!ClearAddr

SrvLoopExit(sid) ==
  /\ srv' = [srv EXCEPT ![sid].loopDone = TRUE]
  /\ SrvAbs(sid)!LoopExit

ServerStep ==
  /\ \E sid \in Sids :
       SrvPublish(sid) \/ SrvChildExit(sid) \/ SrvEmptyAddr(sid) \/ SrvLoopExit(sid)
  /\ UNCHANGED <<shares, children, userServers, fileServerAddr, gen, cpc,
                 newShares, newServers, toStop, requested, req>>

-----------------------------------------------------------------------------
(***************************************************************************)
(* A request.                                                              *)
(***************************************************************************)
Finish(r, code) == req' = [req EXCEPT ![r].resp = code, ![r].pc = "done"]

(* A request arrives for a share, with a method and the principal's       *)
(* permission on that share.                                               *)
ReqArrive(r) ==
  /\ req[r].pc = "idle"
  /\ \E n \in ShareNames, w \in BOOLEAN, p \in Perms :
       req' = [req EXCEPT ![r].share = n, ![r].write = w, ![r].perm = p,
                          ![r].pc = "check"]
  /\ UNCHANGED <<shares, children, userServers, fileServerAddr, gen, srv, cpc,
                 newShares, newServers, toStop, requested>>

(* ServeHTTPWithPerms (173-186): a write method needs ReadWrite; without  *)
(* any permission the share is reported not found.                         *)
ReqCheck(r) ==
  /\ req[r].pc = "check"
  /\ \/ /\ req[r].write /\ req[r].perm = None
        /\ Finish(r, "404")
     \/ /\ req[r].write /\ req[r].perm = ReadOnly
        /\ Finish(r, "403")
     \/ /\ ~req[r].write \/ req[r].perm = ReadWrite
        /\ req' = [req EXCEPT ![r].pc = "route"]
  /\ UNCHANGED <<shares, children, userServers, fileServerAddr, gen, srv, cpc,
                 newShares, newServers, toStop, requested>>

(* Mutation: the loop filtering out shares without permission dropped.    *)
ReqRouteNoFilter(r) ==
  /\ req[r].pc = "route"
  /\ IF req[r].share \in DOMAIN children
     THEN req' = [req EXCEPT ![r].child = children[req[r].share], ![r].pc = "dial"]
     ELSE Finish(r, "404")
  /\ UNCHANGED <<shares, children, userServers, fileServerAddr, gen, srv, cpc,
                 newShares, newServers, toStop, requested>>

(* ServeHTTPWithPerms (188-206): copy s.children under the read lock,     *)
(* keep the children the principal may see, and let compositedav.Handler  *)
(* route the request to the child named by its first path element, or    *)
(* answer not found.                                                       *)
ReqRoute(r) ==
  /\ req[r].pc = "route"
  /\ LET visible == {n \in DOMAIN children : n = req[r].share => req[r].perm # None}
     IN  IF req[r].share \in visible
         THEN req' = [req EXCEPT ![r].child = children[req[r].share], ![r].pc = "dial"]
         ELSE Finish(r, "404")
  /\ UNCHANGED <<shares, children, userServers, fileServerAddr, gen, srv, cpc,
                 newShares, newServers, toStop, requested>>

(* The child's Dial (120-141): the share name is decoded from the host    *)
(* (the hex of the name buildChild put there); under the read lock look   *)
(* the share up in the current s.shares and copy userServers and          *)
(* fileServerAddr.                                                         *)
ReqDialLookup(r) ==
  /\ req[r].pc = "dial"
  /\ LET n == req[r].share
     IN  IF n \notin DOMAIN shares
         THEN Finish(r, "502")                         \* unknown share
         ELSE req' = [req EXCEPT
                ![r].owner  = shares[n],
                ![r].server = IF shares[n] \in DOMAIN userServers
                              THEN userServers[shares[n]] ELSE NoServer,
                ![r].fsAddr = fileServerAddr,
                ![r].pc     = "connect"]
  /\ UNCHANGED <<shares, children, userServers, fileServerAddr, gen, srv, cpc,
                 newShares, newServers, toStop, requested>>

(* The rest of Dial (143-165): the address is fileServerAddr, or the one  *)
(* the owner's userServer has set; "" fails; otherwise connect over TCP   *)
(* or safesocket, which succeeds if a child listens there.                 *)
ReqConnect(r) ==
  /\ req[r].pc = "connect"
  /\ LET sid == req[r].server
         ok  == IF ~AllowShareAs THEN req[r].fsAddr
                ELSE sid # NoServer /\ srv[sid].addr /\ srv[sid].up
     IN  Finish(r, IF ok THEN "ok" ELSE "502")
  /\ UNCHANGED <<shares, children, userServers, fileServerAddr, gen, srv, cpc,
                 newShares, newServers, toStop, requested>>

Request(r) ==
  ReqArrive(r) \/ ReqCheck(r) \/ ReqRoute(r) \/ ReqDialLookup(r) \/ ReqConnect(r)

-----------------------------------------------------------------------------
Coordinator == SetSharesBuild \/ SetSharesInstall \/ CloseFS \/ StopUserServer \/ StopDone

Next ==
  \/ Coordinator
  \/ SetFileServerAddr
  \/ ServerStep
  \/ \E r \in Requests : Request(r)

(***************************************************************************)
(* A SetShares or Close that has begun runs to its end (a goroutine the Go *)
(* runtime keeps scheduling); nobody need call them.  Requests in progress *)
(* are goroutines as well.  A runLoop that has seen closed returns.         *)
(***************************************************************************)
Fairness ==
  /\ WF_vars(SetSharesInstall \/ StopUserServer \/ StopDone)
  /\ \A r \in Requests : WF_vars(ReqCheck(r) \/ ReqRoute(r) \/ ReqDialLookup(r)
                                 \/ ReqConnect(r))

Spec == Init /\ [][Next]_vars /\ Fairness

-----------------------------------------------------------------------------
TypeOK ==
  /\ DOMAIN shares \subseteq ShareNames /\ Range(shares) \subseteq Owners
  /\ DOMAIN children \subseteq ShareNames /\ Range(children) \subseteq 1..MaxGen
  /\ DOMAIN userServers \subseteq Owners /\ Range(userServers) \subseteq Sids
  /\ fileServerAddr \in BOOLEAN
  /\ gen \in 0..MaxGen
  /\ cpc \in {"idle", "install", "stop"}
  /\ toStop \subseteq Sids
  /\ \A r \in Requests : /\ req[r].pc \in {"idle", "check", "route", "dial", "connect", "done"}
                         /\ req[r].perm \in Perms
                         /\ req[r].resp \in Responses
                         /\ req[r].server \in Sids \cup {NoServer}

(***************************************************************************)
(* I3 and the lifecycle of spec 3: the old generation is torn down only    *)
(* after the new one is installed, so the userServers every reader can     *)
(* find are never closed ones.                                             *)
(***************************************************************************)
InstalledServersNotClosed ==
  \A o \in DOMAIN userServers : ~srv[userServers[o]].closed

(***************************************************************************)
(* I3: the routing table (children) names only shares of s.shares whose    *)
(* owner has a userServer in the same generation, also after Close.        *)
(***************************************************************************)
RoutingMatchesServers ==
  \A n \in DOMAIN children :
     /\ n \in DOMAIN shares
     /\ AllowShareAs => shares[n] \in DOMAIN userServers

(***************************************************************************)
(* A connection a Dial makes for share n reaches a userServer that serves *)
(* n, for the owner n had in the generation the Dial looked up, however    *)
(* the request and the reconfigurations interleave.                        *)
(***************************************************************************)
DialReachesShareOwner ==
  \A r \in Requests :
     (AllowShareAs /\ req[r].resp = "ok") =>
        /\ req[r].share \in srv[req[r].server].shares
        /\ req[r].server[2] = req[r].owner

(***************************************************************************)
(* Spec 4.3 and 7: a request reaches a backend only with ReadWrite, or     *)
(* ReadOnly for a read; without permission the answer is always "not      *)
(* found", never an error that would reveal that the share exists.         *)
(***************************************************************************)
PermissionsEnforced ==
  \A r \in Requests :
     /\ req[r].resp = "ok" => req[r].perm = ReadWrite
                              \/ (req[r].perm = ReadOnly /\ ~req[r].write)
     /\ req[r].perm = None /\ req[r].resp # "none" => req[r].resp = "404"

(***************************************************************************)
(* Every userServer of a replaced generation is eventually closed: no     *)
(* child process is left to a configuration nobody can reach.              *)
(***************************************************************************)
ReplacedServersClosed ==
  \A sid \in Sids : (srv[sid].built /\ sid[1] < gen) ~> srv[sid].closed

-----------------------------------------------------------------------------
(* Spec 3: every SetShares installs a generation of the shares it is      *)
(* given; once it has returned, those are the shares being served.         *)
SharesFollowConfig ==
  cpc = "idle" => shares = requested

=============================================================================
