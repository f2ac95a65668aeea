------------------------------- MODULE Actors -------------------------------
(***************************************************************************)
(* The subprocess-backed actors of tasks/simple_actors/solution/actor.py.  *)
(*                                                                         *)
(* Every actor is a spawned process that listens on a loopback port.  A    *)
(* method call, like a termination request, opens one connection to that   *)
(* port; the actor's serve loop accepts one connection at a time and       *)
(* awaits the method before it accepts the next.  A process records the    *)
(* actors it created, by address, and terminates them when it exits.       *)
(*                                                                         *)
(* User code is arbitrary: a method (or Main) creates actors, starts and   *)
(* awaits operations on the references it holds, and returns or raises.    *)
(* MayReach restricts which process may operate on which actor, so that a  *)
(* model can choose acyclic or cyclic programs.                            *)
(***************************************************************************)
EXTENDS Naturals, FiniteSets

CONSTANTS
  Proc,       \* identities of processes
  Main,       \* the process the program starts in
  Port,       \* the ports the operating system hands out
  Op,         \* identities of the operations user code starts
  None,       \* no process, no operation, no port
  MayReach,   \* pairs <<p, q>>: user code in p may create or operate on actor q
  Workers,    \* threads of the default executor behind asyncio.to_thread
  Backlog,    \* length of a listener's accept queue
  PortReuse,  \* may the system hand out the port of a dead actor again?
  MaxCrash    \* bound on the number of killed processes

ASSUME ActorsAssumption ==
  /\ Main \in Proc
  /\ None \notin Proc \cup Port \cup Op
  /\ Op \cap Proc = {}
  /\ Workers \in Nat \ {0}
  /\ Backlog \in Nat \ {0}
  /\ PortReuse \in BOOLEAN
  /\ MaxCrash \in Nat

(* A connection is named by the operation that opened it.  The Terminate   *)
(* request that an exiting owner sends to its actor c is named c.          *)
Conn == Op \cup Proc

VARIABLES
  status,   \* life cycle of each process
  addr,     \* address of the listener, kept after the listener is closed
  parent,   \* the process that spawned it
  making,   \* the actor whose startup message the process is waiting for
  startup,  \* content of the startup pipe from the child
  owned,    \* _owned_processes: address -> process object
  todo,     \* actors the exit finalizer has still to terminate
  known,    \* references held; code sees only the address of a reference
  cur,      \* the connection the serve loop is handling
  req,      \* what each operation asks: kind, caller, target, ...
  pc,       \* progress of each connection
  at,       \* the process whose listener accepted the connection
  reply,    \* how a call ended for its caller
  execs,    \* how often the method of a call was started
  killed    \* processes that were killed

procVars == <<status, addr, parent, making, startup, owned, todo, known, cur>>
connVars == <<req, pc, at, reply, execs>>
vars     == <<procVars, connVars, killed>>

Status == {"unborn", "init", "serving", "busy", "closing", "exiting", "dead"}
PC     == {"idle", "spawned", "queued", "served", "closed", "joining", "done",
          "lost"}
Reply  == {"none", "value", "raised", "died"}

NoRequest ==
  [kind |-> "none", caller |-> None, target |-> None, ctx |-> None,
   arg |-> None, late |-> FALSE]

Request ==
  [kind: {"none", "call", "terminate"}, caller: Proc \cup {None},
   target: Proc \cup {None}, ctx: Conn \cup {None}, arg: Proc \cup {None},
   late: BOOLEAN]

TypeOK ==
  /\ status  \in [Proc -> Status]
  /\ addr    \in [Proc -> Port \cup {None}]
  /\ parent  \in [Proc -> Proc \cup {None}]
  /\ making  \in [Proc -> Proc \cup {None}]
  /\ startup \in [Proc -> {"none", "ok", "failed"}]
  /\ owned   \in [Proc -> [Port -> Proc \cup {None}]]
  /\ todo    \in [Proc -> SUBSET Proc]
  /\ known   \in [Proc -> SUBSET Proc]
  /\ cur     \in [Proc -> Conn \cup {None}]
  /\ req     \in [Conn -> Request]
  /\ pc      \in [Conn -> PC]
  /\ at      \in [Conn -> Proc \cup {None}]
  /\ reply   \in [Conn -> Reply]
  /\ execs   \in [Conn -> Nat]
  /\ killed  \subseteq Proc

Init ==
  /\ status  = [p \in Proc |-> IF p = Main THEN "busy" ELSE "unborn"]
  /\ addr    = [p \in Proc |-> None]
  /\ parent  = [p \in Proc |-> None]
  /\ making  = [p \in Proc |-> None]
  /\ startup = [p \in Proc |-> "none"]
  /\ owned   = [p \in Proc |-> [a \in Port |-> None]]
  /\ todo    = [p \in Proc |-> {}]
  /\ known   = [p \in Proc |-> {}]
  /\ cur     = [p \in Proc |-> None]
  /\ req     = [o \in Conn |-> NoRequest]
  /\ pc      = [o \in Conn |-> "idle"]
  /\ at      = [o \in Conn |-> None]
  /\ reply   = [o \in Conn |-> "none"]
  /\ execs   = [o \in Conn |-> 0]
  /\ killed  = {}

-----------------------------------------------------------------------------
(* Helpers                                                                 *)

(* User code is running in p: Main's coroutine, or the method of cur[p].   *)
Running(p) == status[p] = "busy" /\ making[p] = None

(* The processes whose listener is open at an address.                     *)
ListenersAt(a) ==
  {q \in Proc : addr[q] = a /\ status[q] \in {"serving", "busy", "closing"}}

(* The system gives a listener a port no open listener has; unless it      *)
(* reuses ports, one that no listener ever had.                            *)
SharedPort(a) == TRUE   \* mutant: listeners may share an address

FreePort(a) ==
  ListenersAt(a) = {} /\ (PortReuse \/ \A q \in Proc : addr[q] # a)

(* The connections q has not accepted yet.                                 *)
UnansweredQueue(q) ==   \* mutant: closing the listener answers nobody
  {o \in Conn : pc[o] = "queued" /\ at[o] = q /\ status[q] # "closing"}

Queue(q) == {o \in Conn : pc[o] = "queued" /\ at[o] = q}

(* The serve loop of q is waiting in accept.                               *)
AcceptingWhileBusy(q) == status[q] \in {"serving", "busy"}       \* mutant
AcceptingWhileClosing(q) == status[q] \in {"serving", "closing"} \* mutant

Accepting(q) == status[q] = "serving"

(* The references a request carries.                                       *)
CarriedAlways(o) == {req[o].arg}   \* mutant: no argument passes as one

Carried(o) == {req[o].arg} \ {None}

(* Threads of p that are inside ActorRef._call or _terminate_ref.          *)
InThread(p) ==
  {o \in Op : req[o].caller = p /\ pc[o] \in {"queued", "served", "closed", "joining"}}

OpsOf(p) == {o \in Op : req[o].caller = p}

(* References for which terminate() has already returned.                  *)
Terminated == {req[o].target : o \in {x \in Op : req[x].kind = "terminate" /\ pc[x] = "done"}}

(* References held in p that code in q has a use for.                      *)
Passable(p, q) == {r \in known[p] : <<q, r>> \in MayReach}

(* The process objects in p's registry of owned actors.                    *)
ForgottenOwned(p) == {}   \* mutant: a spawned process loses its registry

Owned(p) == {owned[p][a] : a \in Port} \ {None}

Children(p) == {c \in Proc : parent[c] = p}

(* p could join every child.                                               *)
DetachedChildren(p) == TRUE   \* mutant: exits without joining

ChildrenEnded(p) == \A c \in Children(p) : status[c] = "dead"

(* The startup pipe of c brought a failure, or ended without a message.    *)
ReportedFailure(c) == startup[c] = "failed"   \* mutant: EOF is not handled

StartFailed(c) == startup[c] # "ok"

(* The peer closed or reset the connections in S: a call raises            *)
(* ActorDiedError, a termination request goes on to its next step.         *)
EmptyAnswer(S) ==   \* mutant: the end of the connection passes as a result
  /\ pc' = [o \in Conn |-> IF o \notin S THEN pc[o]
                           ELSE IF req[o].kind = "call" THEN "done" ELSE "closed"]
  /\ reply' = [o \in Conn |-> IF o \in S /\ req[o].kind = "call" THEN "value"
                              ELSE reply[o]]

Disconnect(S) ==
  /\ pc' = [o \in Conn |-> IF o \notin S THEN pc[o]
                           ELSE IF req[o].kind = "call" THEN "done" ELSE "closed"]
  /\ reply' = [o \in Conn |-> IF o \in S /\ req[o].kind = "call" THEN "died"
                              ELSE reply[o]]

-----------------------------------------------------------------------------
(* Creation: create_actor in the parent, _actor_process in the child.      *)

(* The constructor arguments may carry one reference the parent holds.     *)
Create(p, c) ==
  /\ status[p] \in {"busy", "init"}
  /\ making[p] = None
  /\ status[c] = "unborn" /\ <<p, c>> \in MayReach
  /\ \E r \in Passable(p, c) \cup {None} :
       known' = [known EXCEPT ![c] = {r} \ {None}]
  /\ status' = [status EXCEPT ![c] = "init"]
  /\ parent' = [parent EXCEPT ![c] = p]
  /\ making' = [making EXCEPT ![p] = c]
  /\ UNCHANGED <<addr, startup, owned, todo, cur, connVars, killed>>

(* The listener is opened; its address can only be sent to a parent that   *)
(* is alive.                                                               *)
ConstructorOk(c) ==
  /\ status[c] = "init"
  /\ making[c] = None
  /\ status[parent[c]] # "dead"
  /\ \E a \in Port : FreePort(a) /\ addr' = [addr EXCEPT ![c] = a]
  /\ status'  = [status EXCEPT ![c] = "serving"]
  /\ startup' = [startup EXCEPT ![c] = "ok"]
  /\ UNCHANGED <<parent, making, owned, todo, known, cur, connVars, killed>>

(* The constructor raises, or sending the address does: the failure goes   *)
(* to the parent and the process exits, terminating the actors its         *)
(* constructor created.                                                    *)
ConstructorFail(c) ==
  /\ status[c] = "init"
  /\ making[c] = None
  /\ status'  = [status EXCEPT ![c] = "exiting"]
  /\ startup' = [startup EXCEPT ![c] = "failed"]
  /\ todo'    = [todo EXCEPT ![c] = Owned(c)]
  /\ UNCHANGED <<addr, parent, making, owned, known, cur, connVars, killed>>

CreateReturn(p) ==
  LET c == making[p] IN
  /\ status[p] \in {"busy", "init"}
  /\ c # None
  /\ startup[c] = "ok"
  /\ owned'  = [owned EXCEPT ![p] = [@ EXCEPT ![addr[c]] = c]]
  /\ known'  = [known EXCEPT ![p] = @ \cup {c}]
  /\ making' = [making EXCEPT ![p] = None]
  /\ UNCHANGED <<status, addr, parent, startup, todo, cur, connVars, killed>>

(* The parent joins the child that failed before it raises.                *)
CreateRaise(p) ==
  LET c == making[p] IN
  /\ status[p] \in {"busy", "init"}
  /\ c # None
  /\ StartFailed(c) /\ status[c] = "dead"
  /\ making' = [making EXCEPT ![p] = None]
  /\ UNCHANGED <<status, addr, parent, startup, owned, todo, known, cur, connVars, killed>>

-----------------------------------------------------------------------------
(* Clients: ActorRef.__getattr__/_call and terminate/_terminate_ref.       *)

(* The coroutine hands the blocking operation to the executor.             *)
Start(p, o, kind, r) ==
  /\ Running(p)
  /\ o \in Op /\ pc[o] = "idle"
  /\ r \in known[p] /\ <<p, r>> \in MayReach
  /\ \E x \in (IF kind = "call" THEN Passable(p, r) ELSE {}) \cup {None} :
       req' = [req EXCEPT ![o] =
                 [kind |-> kind, caller |-> p, target |-> r, ctx |-> cur[p],
                  arg |-> x, late |-> r \in Terminated]]
  /\ pc' = [pc EXCEPT ![o] = "spawned"]
  /\ UNCHANGED <<procVars, at, reply, execs, killed>>

(* A thread connects to the address of the reference and sends the         *)
(* request.  Connections are established in no particular order, so the    *)
(* accept queue is a set.                                                  *)
Connect(o) ==
  LET p == req[o].caller IN
  /\ o \in Op /\ pc[o] = "spawned"
  /\ status[p] # "dead"
  /\ Cardinality(InThread(p)) < Workers
  /\ \E q \in ListenersAt(addr[req[o].target]) :
       /\ Cardinality(Queue(q)) < Backlog
       /\ pc' = [pc EXCEPT ![o] = "queued"]
       /\ at' = [at EXCEPT ![o] = q]
  /\ UNCHANGED <<procVars, req, reply, execs, killed>>

(* Nobody listens at the address: the connection is refused.               *)
ConnectRefused(o) ==
  LET p == req[o].caller IN
  /\ o \in Op /\ pc[o] = "spawned"
  /\ status[p] # "dead"
  /\ Cardinality(InThread(p)) < Workers
  /\ ListenersAt(addr[req[o].target]) = {}
  /\ Disconnect({o})
  /\ UNCHANGED <<procVars, req, at, execs, killed>>

(* The arguments of a call cannot be serialized: nothing is sent.          *)
SerializeFails(o) ==
  /\ o \in Op /\ pc[o] = "spawned" /\ req[o].kind = "call"
  /\ status[req[o].caller] # "dead"
  /\ Cardinality(InThread(req[o].caller)) < Workers
  /\ pc'    = [pc EXCEPT ![o] = "done"]
  /\ reply' = [reply EXCEPT ![o] = "raised"]
  /\ UNCHANGED <<procVars, req, at, execs, killed>>

(* _terminate_ref after the connection ended: the registry entry for the   *)
(* address is popped, and the process object found there is joined.        *)
TerminatePop(o) ==
  LET p == req[o].caller
      a == addr[req[o].target] IN
  /\ o \in Op /\ pc[o] = "closed"
  /\ status[p] # "dead"
  /\ at' = [at EXCEPT ![o] = owned[p][a]]
  /\ pc' = [pc EXCEPT ![o] = IF owned[p][a] = None THEN "done" ELSE "joining"]
  /\ owned' = [owned EXCEPT ![p] = [@ EXCEPT ![a] = None]]
  /\ UNCHANGED <<status, addr, parent, making, startup, todo, known, cur,
                 req, reply, execs, killed>>

TerminateJoined(o) ==
  /\ o \in Op /\ pc[o] = "joining"
  /\ status[req[o].caller] # "dead"
  /\ status[at[o]] = "dead"
  /\ pc' = [pc EXCEPT ![o] = "done"]
  /\ UNCHANGED <<procVars, req, at, reply, execs, killed>>

-----------------------------------------------------------------------------
(* The serve loop: _serve_actor.                                           *)

(* A call: its arguments are unpickled and the method is started.          *)
AcceptCall(q, o) ==
  /\ Accepting(q)
  /\ o \in Queue(q) /\ req[o].kind = "call"
  /\ status' = [status EXCEPT ![q] = "busy"]
  /\ cur'    = [cur EXCEPT ![q] = o]
  /\ known'  = [known EXCEPT ![q] = @ \cup Carried(o)]
  /\ pc'     = [pc EXCEPT ![o] = "served"]
  /\ execs'  = [execs EXCEPT ![o] = @ + 1]
  /\ UNCHANGED <<addr, parent, making, startup, owned, todo, req, at, reply, killed>>

(* The request cannot be unpickled in this process, or its method is not   *)
(* exposed here because the reference was made for another actor that had  *)
(* the same address.                                                       *)
RejectCall(q, o) ==
  /\ Accepting(q)
  /\ o \in Queue(q) /\ req[o].kind = "call"
  /\ status[req[o].caller] # "dead"
  /\ pc'    = [pc EXCEPT ![o] = "done"]
  /\ reply' = [reply EXCEPT ![o] = "raised"]
  /\ UNCHANGED <<procVars, req, at, execs, killed>>

(* The caller was killed before its request arrived: receiving ends early, *)
(* and sending that failure may fail in turn, which ends the serve loop.   *)
AcceptBroken(q, o) ==
  /\ Accepting(q)
  /\ o \in Queue(q) /\ status[req[o].caller] = "dead"
  /\ \E s \in {"serving", "closing"} : status' = [status EXCEPT ![q] = s]
  /\ pc' = [pc EXCEPT ![o] = "lost"]
  /\ UNCHANGED <<addr, parent, making, startup, owned, todo, known, cur,
                 req, at, reply, execs, killed>>

(* A _Terminate request: the loop returns, which closes the connection     *)
(* first and the listener after it (CloseListener).                        *)
AcceptTerminate(q, o) ==
  /\ Accepting(q)
  /\ o \in Queue(q) /\ req[o].kind = "terminate"
  /\ status' = [status EXCEPT ![q] = "closing"]
  /\ Disconnect({o})
  /\ UNCHANGED <<addr, parent, making, startup, owned, todo, known, cur,
                 req, at, execs, killed>>

(* The method awaited everything it started.                               *)
BodyDone(q) ==
  /\ Running(q)
  /\ cur[q] # None
  /\ \A x \in Op : req[x].caller = q /\ req[x].ctx = cur[q] => pc[x] = "done"

(* The method returns, possibly with a reference, or raises; so does a     *)
(* response that cannot be serialized.  The caller gets the response.      *)
Respond(q, how, r) ==
  LET o == cur[q]
      p == req[o].caller IN
  /\ BodyDone(q)
  /\ status[p] # "dead"
  /\ r \in Passable(q, p) \cup {None}
  /\ how = "raised" => r = None
  /\ status' = [status EXCEPT ![q] = "serving"]
  /\ cur'    = [cur EXCEPT ![q] = None]
  /\ known'  = [known EXCEPT ![p] = @ \cup ({r} \ {None})]
  /\ pc'     = [pc EXCEPT ![o] = "done"]
  /\ reply'  = [reply EXCEPT ![o] = how]
  /\ UNCHANGED <<addr, parent, making, startup, owned, todo, req, at, execs, killed>>

(* The caller was killed: its call is lost.  Sending may still succeed; if it fails, so does *)
(* sending the fallback failure, and the exception ends the serve loop.    *)
RespondToDead(q) ==
  LET o == cur[q] IN
  /\ BodyDone(q)
  /\ status[req[o].caller] = "dead"
  /\ \E s \in {"serving", "closing"} : status' = [status EXCEPT ![q] = s]
  /\ cur' = [cur EXCEPT ![q] = None]
  /\ pc'  = [pc EXCEPT ![o] = "lost"]
  /\ UNCHANGED <<addr, parent, making, startup, owned, todo, known, req, at,
                 reply, execs, killed>>

-----------------------------------------------------------------------------
(* Exit: the listener is closed, the finalizer terminates and joins the    *)
(* owned actors, and the process ends when its children have ended.        *)

CloseListener(q) ==
  /\ status[q] = "closing"
  /\ status' = [status EXCEPT ![q] = "exiting"]
  /\ todo'   = [todo EXCEPT ![q] = Owned(q)]
  /\ Disconnect(Queue(q))
  /\ UNCHANGED <<addr, parent, making, startup, owned, known, cur, req, at, execs, killed>>

(* Main's coroutine ended; asyncio.run waits for the executor's threads.   *)
MainExit ==
  /\ Running(Main)
  /\ \A o \in OpsOf(Main) : pc[o] = "done"
  /\ status' = [status EXCEPT ![Main] = "exiting"]
  /\ todo'   = [todo EXCEPT ![Main] = Owned(Main)]
  /\ UNCHANGED <<addr, parent, making, startup, owned, known, cur, connVars, killed>>

(* The finalizer has no request outstanding.                               *)
FinalizerFree(p) == \A c \in todo[p] : pc[c] = "idle"

FinalizerSend(p, c) ==
  /\ status[p] = "exiting"
  /\ c \in todo[p] /\ FinalizerFree(p)
  /\ status[c] # "dead"
  /\ \E q \in ListenersAt(addr[c]) :
       /\ Cardinality(Queue(q)) < Backlog
       /\ at' = [at EXCEPT ![c] = q]
  /\ req' = [req EXCEPT ![c] = [NoRequest EXCEPT !.kind = "terminate",
                                                 !.caller = p, !.target = c]]
  /\ pc'  = [pc EXCEPT ![c] = "queued"]
  /\ UNCHANGED <<procVars, reply, execs, killed>>

(* The actor is dead already, or refuses the connection.                   *)
FinalizerSkip(p, c) ==
  /\ status[p] = "exiting"
  /\ c \in todo[p] /\ FinalizerFree(p)
  /\ status[c] = "dead" \/ ListenersAt(addr[c]) = {}
  /\ todo' = [todo EXCEPT ![p] = @ \ {c}]
  /\ UNCHANGED <<status, addr, parent, making, startup, owned, known, cur, connVars, killed>>

FinalizerNext(p, c) ==
  /\ status[p] = "exiting"
  /\ c \in todo[p] /\ pc[c] = "closed"
  /\ todo' = [todo EXCEPT ![p] = @ \ {c}]
  /\ pc'   = [pc EXCEPT ![c] = "done"]
  /\ UNCHANGED <<status, addr, parent, making, startup, owned, known, cur,
                 req, at, reply, execs, killed>>

(* The finalizer joined every owned process, and the multiprocessing exit  *)
(* function every child it still knows of.                                 *)
Exit(p) ==
  /\ status[p] = "exiting"
  /\ todo[p] = {} /\ ChildrenEnded(p)
  /\ status' = [status EXCEPT ![p] = "dead"]
  /\ owned'  = [owned EXCEPT ![p] = [a \in Port |-> None]]
  /\ UNCHANGED <<addr, parent, making, startup, todo, known, cur, connVars, killed>>

(* An actor process is killed: its connections are reset.                  *)
Crash(q) ==
  /\ Cardinality(killed) < MaxCrash
  /\ q # Main /\ status[q] \notin {"unborn", "dead"}
  /\ killed' = killed \cup {q}
  /\ status'  = [status EXCEPT ![q] = "dead"]
  /\ cur'     = [cur EXCEPT ![q] = None]
  /\ Disconnect(Queue(q) \cup ({cur[q]} \ {None}))
  /\ UNCHANGED <<addr, parent, making, startup, owned, todo, known, req, at, execs>>

-----------------------------------------------------------------------------
Creation(p) ==
  \/ \E c \in Proc : Create(p, c)
  \/ ConstructorOk(p)
  \/ ConstructorFail(p)
  \/ CreateReturn(p)
  \/ CreateRaise(p)

StartOp(p) ==
  \E o \in Op, r \in known[p] : Start(p, o, "call", r) \/ Start(p, o, "terminate", r)

Client(o) ==
  Connect(o) \/ ConnectRefused(o) \/ SerializeFails(o) \/ TerminatePop(o) \/ TerminateJoined(o)

Accept(q) ==
  \E o \in Conn : AcceptCall(q, o) \/ RejectCall(q, o) \/ AcceptBroken(q, o) \/ AcceptTerminate(q, o)

Finish(q) ==
  \/ \E r \in known[q] \cup {None} : Respond(q, "value", r)
  \/ Respond(q, "raised", None)
  \/ RespondToDead(q)

Finalizer(p) ==
  \E c \in todo[p] : FinalizerSend(p, c) \/ FinalizerSkip(p, c) \/ FinalizerNext(p, c)

Shutdown(p) == CloseListener(p) \/ Finalizer(p) \/ Exit(p)

(* The program is over.  Actors may survive only an owner that was killed. *)
Ended == status[Main] = "dead" /\ UNCHANGED vars

Next ==
  \/ MainExit
  \/ \E p \in Proc : Creation(p) \/ StartOp(p) \/ Accept(p) \/ Finish(p) \/ Shutdown(p) \/ Crash(p)
  \/ \E o \in Op : Client(o)
  \/ Ended

Spec == Init /\ [][Next]_vars

(* Threads, processes and the serve loops keep running, a constructor and  *)
(* a method that can return eventually do.  Nothing forces user code to    *)
(* start an operation, Main to end, or a process to be killed.             *)
Fairness ==
  /\ \A p \in Proc :
       /\ WF_vars(ConstructorOk(p) \/ ConstructorFail(p))
       /\ WF_vars(CreateReturn(p) \/ CreateRaise(p))
       /\ WF_vars(Accept(p))
       /\ WF_vars(Finish(p))
       /\ WF_vars(Shutdown(p))
  /\ \A o \in Op : WF_vars(Client(o))

FairSpec == Spec /\ Fairness
-----------------------------------------------------------------------------
(* Properties                                                              *)

(* A method runs at most once for a call.  A caller that got a value had   *)
(* its call run; a caller told that the actor died had it run only if the  *)
(* actor was killed in the middle of it (_call catches EOFError/OSError).  *)
CallsAccountedFor ==
  \A o \in Op :
    /\ execs[o] <= 1
    /\ reply[o] = "value" => execs[o] = 1
    /\ reply[o] = "died" /\ execs[o] = 1 => at[o] \in killed

(* terminate: "Calls through any reference to the terminated actor         *)
(* subsequently raise ActorDiedError", so they never run a method.         *)
TerminatedStaysDead == \A o \in Op : req[o].late => execs[o] = 0

(* While an actor serves, the process that created it knows it under its   *)
(* address, so that it will be terminated when its owner exits; a          *)
(* concurrent terminate() drops the entry only of an actor that stopped.   *)
ServingIsRegistered ==
  \A p \in Proc \ killed : \A c \in Children(p) :
    /\ status[c] \in {"serving", "busy"}
    /\ making[p] # c
    => /\ status[p] # "dead"
       /\ owned[p][addr[c]] = c
       /\ status[p] = "exiting" => c \in todo[p]

(* The finalizer is done with the owned actors only when every one of them *)
(* is on its way out; otherwise joining them would never end.              *)
JoinsOnlyStopped ==
  \A p \in Proc : status[p] = "exiting" /\ todo[p] = {} =>
    \A c \in Children(p) : status[c] \in {"closing", "exiting", "dead"}

(* c and all the processes below it have ended.                            *)
TreeGone(c) ==
  \E S \in SUBSET {q \in Proc : status[q] = "dead"} :
    c \in S /\ \A q \in S : Children(q) \subseteq S

(* terminate: "Terminate an actor and all actors that it owns".  When the  *)
(* terminate() that joined the actor returns, the whole tree is gone.      *)
TerminateTakesTree ==
  killed = {} => \A o \in Op :
    req[o].kind = "terminate" /\ pc[o] = "done" /\ at[o] # None => TreeGone(at[o])

(* What p waits for: the actor it is creating, an actor that has, or has   *)
(* no room for, one of its requests, and the children it has to join.      *)
WaitsFor(p) ==
  (({making[p]} \cup {at[o] : o \in InThread(p)}) \ {None})
  \cup (UNION {ListenersAt(addr[req[o].target]) : o \in {x \in OpsOf(p) : pc[x] = "spawned"}})
  \cup {c \in Children(p) : status[p] = "exiting" /\ status[c] # "dead"}

(* Some processes all wait for one another: user code made a cycle.        *)
WaitCycle ==
  \E S \in SUBSET Proc : S # {} /\ \A p \in S : WaitsFor(p) \cap S # {}

(* Every operation that was started ends, unless user code makes processes *)
(* wait for one another for ever: a full queue, a full executor, a         *)
(* terminating or a killed actor never leave a caller waiting.             *)
OperationsEnd ==
  \A o \in Op :
    [](pc[o] # "idle" => <>(pc[o] = "done" \/ req[o].caller \in killed \/ []WaitCycle))

(* When Main ends, so does every actor, unless such a cycle prevents it.   *)
EveryoneExits ==
  [](status[Main] = "exiting" =>
       <>((\A p \in Proc : status[p] \in {"unborn", "dead"}) \/ []WaitCycle))

(* User code that calls, creates and terminates only "downwards" never     *)
(* makes processes wait for one another.                                   *)
NoWaitCycle == ~WaitCycle

(* The abstract view of an actor and of an operation.                      *)
Life(q) ==
  IF addr[q] = None THEN "unborn"
  ELSE IF status[q] \in {"serving", "busy"} THEN "alive" ELSE "dead"

Phase(o) ==
  IF pc[o] = "idle" THEN "idle"
  ELSE IF req[o].kind = "terminate" THEN IF pc[o] = "done" THEN "stopped" ELSE "stopping"
  ELSE IF pc[o] = "done" THEN reply[o]
  ELSE IF pc[o] = "served" THEN "running" ELSE "pending"

Rpc == INSTANCE ActorRpc WITH
  Actor  <- Proc \ {Main},
  life   <- [q \in Proc \ {Main} |-> Life(q)],
  phase  <- [o \in Op |-> Phase(o)],
  target <- [o \in Op |-> req[o].target]

(* Without killed processes and reused ports, callers see what ActorRpc    *)
(* promises.                                                               *)
ImplementsRpc == Rpc!RpcSpec
=============================================================================
