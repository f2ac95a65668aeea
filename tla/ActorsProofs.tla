---------------------------- MODULE ActorsProofs ----------------------------
(***************************************************************************)
(* Proofs about Actors, for any number of processes, ports and operations: *)
(* type correctness; that calls are accounted for, and that a terminated   *)
(* actor stays dead; and the family of processes: who created whom, whom   *)
(* an owner has registered, what the exit finalizer has still to do, and   *)
(* who waits for whom; and that Actors implements ActorRpc when no process *)
(* is killed and no port is given out twice.                               *)
(***************************************************************************)
EXTENDS Actors, TLAPS, FiniteSetTheorems

(* Every reference in circulation was made for an actor that had started   *)
(* to listen, so it has an address; every started operation has a caller   *)
(* and a target.  Type correctness of TerminatePop needs this.             *)
ReferencesHaveAddresses ==
  /\ \A c \in Proc : startup[c] = "ok" => addr[c] \in Port
  /\ \A p \in Proc : \A r \in known[p] : addr[r] \in Port
  /\ \A o \in Conn : req[o].arg # None => addr[req[o].arg] \in Port
  /\ \A o \in Op : pc[o] # "idle" =>
       /\ req[o].caller \in Proc /\ req[o].target \in Proc
       /\ addr[req[o].target] \in Port

(* The connection a process is serving was accepted by that process.       *)
ServedByOne ==
  \A q \in Proc : cur[q] # None => pc[cur[q]] = "served" /\ at[cur[q]] = q

TypeInv == TypeOK /\ ReferencesHaveAddresses /\ ServedByOne

(* A method has run exactly for the calls that were accepted, and no       *)
(* answer is there before the end.                                         *)
CallInv ==
  /\ \A o \in Conn : pc[o] \in {"idle", "spawned", "queued", "closed", "joining"}
                     => execs[o] = 0 /\ reply[o] = "none"
  /\ \A o \in Conn : pc[o] = "served" => execs[o] = 1 /\ reply[o] = "none"
                                         /\ req[o].kind = "call"
  /\ \A o \in Conn : pc[o] \in {"done", "lost"} =>
       /\ execs[o] <= 1
       /\ reply[o] = "value" => execs[o] = 1
       /\ reply[o] = "died" /\ execs[o] = 1 => at[o] \in killed

-----------------------------------------------------------------------------
(* The initial state has the types.                                        *)
LEMMA InitTypes == Init => TypeInv
  BY ActorsAssumption DEF Init, TypeInv, TypeOK, ReferencesHaveAddresses, ServedByOne, NoRequest,
     Request, Status, PC, Reply, Conn

(* Every step keeps the types and the addresses.                           *)
LEMMA StepTypes == TypeInv /\ [Next]_vars => TypeInv'
<1> SUFFICES ASSUME TypeInv, [Next]_vars PROVE TypeInv'
  OBVIOUS
<1>0. Op \subseteq Conn /\ Proc \subseteq Conn
  BY DEF Conn
<1> USE ActorsAssumption, <1>0 DEF TypeInv, TypeOK, ReferencesHaveAddresses,
     ServedByOne, Status, PC, Reply, Request
<1>1. ASSUME NEW p \in Proc, NEW c \in Proc, Create(p, c) PROVE TypeInv'
  <2>1. PICK r \in known[p] \cup {None} : known' = [known EXCEPT ![c] = {r} \ {None}]
    BY <1>1 DEF Create, Passable
  <2>2. known' \in [Proc -> SUBSET Proc] /\ \A q \in Proc : \A x \in known'[q] : addr[x] \in Port
    BY <2>1
  <2>3. QED
    BY <1>1, <2>2 DEF Create, connVars
<1>2. ASSUME NEW p \in Proc, ConstructorOk(p) PROVE TypeInv'
  BY <1>2 DEF ConstructorOk, connVars
<1>3. ASSUME NEW p \in Proc, ConstructorFail(p) PROVE TypeInv'
  BY <1>3 DEF ConstructorFail, Owned, connVars
<1>4. ASSUME NEW p \in Proc, CreateReturn(p) PROVE TypeInv'
  BY <1>4 DEF CreateReturn, connVars
<1>5. ASSUME NEW p \in Proc, CreateRaise(p) PROVE TypeInv'
  BY <1>5 DEF CreateRaise, connVars
<1>6. ASSUME NEW p \in Proc, NEW o \in Op, NEW k \in {"call", "terminate"},
             NEW r \in known[p], Start(p, o, k, r)
      PROVE  TypeInv'
  BY <1>6 DEF Start, Passable, procVars
<1>7. ASSUME NEW o \in Op, Connect(o) PROVE TypeInv'
  BY <1>7 DEF Connect, ListenersAt, procVars
<1>8. ASSUME NEW o \in Op, ConnectRefused(o) PROVE TypeInv'
  BY <1>8 DEF ConnectRefused, Disconnect, procVars
<1>9. ASSUME NEW o \in Op, SerializeFails(o) PROVE TypeInv'
  BY <1>9 DEF SerializeFails, procVars
<1>10. ASSUME NEW o \in Op, TerminatePop(o) PROVE TypeInv'
  BY <1>10 DEF TerminatePop
<1>11. ASSUME NEW o \in Op, TerminateJoined(o) PROVE TypeInv'
  BY <1>11 DEF TerminateJoined, procVars
<1>12. ASSUME NEW q \in Proc, NEW o \in Conn, AcceptCall(q, o) PROVE TypeInv'
  BY <1>12 DEF AcceptCall, Queue, Carried
<1>13. ASSUME NEW q \in Proc, NEW o \in Conn, RejectCall(q, o) PROVE TypeInv'
  BY <1>13 DEF RejectCall, Queue, procVars
<1>14. ASSUME NEW q \in Proc, NEW o \in Conn, AcceptBroken(q, o) PROVE TypeInv'
  BY <1>14 DEF AcceptBroken, Queue
<1>15. ASSUME NEW q \in Proc, NEW o \in Conn, AcceptTerminate(q, o) PROVE TypeInv'
  BY <1>15 DEF AcceptTerminate, Queue, Disconnect
<1>16. ASSUME NEW q \in Proc, NEW how \in {"value", "raised"},
              NEW r \in known[q] \cup {None}, Respond(q, how, r)
       PROVE  TypeInv'
  <2> DEFINE o == cur[q]
  <2>1. o \in Conn /\ pc[o] = "served" /\ at[o] = q
    BY <1>16 DEF Respond, BodyDone
  <2>2. {r} \ {None} \subseteq known[q]
    BY <1>16 DEF Passable, Respond
  <2>3. known' \in [Proc -> SUBSET Proc] /\ \A p \in Proc : \A x \in known'[p] : addr[x] \in Port
    <3>1. \A p \in Proc : known'[p] \subseteq known[p] \cup known[q]
      BY <1>16, <2>2 DEF Respond
    <3>2. known' = [p \in Proc |-> known'[p]]
      BY <1>16 DEF Respond
    <3>3. \A p \in Proc : known'[p] \subseteq Proc
      BY <3>1
    <3>4. QED
      BY <3>1, <3>2, <3>3
  <2>4. ReferencesHaveAddresses'
    BY <1>16, <2>1, <2>3 DEF Respond
  <2>5. ServedByOne'
    BY <1>16, <2>1 DEF Respond
  <2>6. TypeOK'
    BY <1>16, <2>1, <2>3 DEF Respond
  <2>7. QED
    BY <2>4, <2>5, <2>6
<1>17. ASSUME NEW q \in Proc, RespondToDead(q) PROVE TypeInv'
  BY <1>17 DEF RespondToDead, BodyDone
<1>18. ASSUME NEW q \in Proc, CloseListener(q) PROVE TypeInv'
  BY <1>18 DEF CloseListener, Queue, Owned, Disconnect
<1>19. ASSUME MainExit PROVE TypeInv'
  BY <1>19 DEF MainExit, Owned, connVars
<1>20. ASSUME NEW p \in Proc, NEW c \in todo[p], FinalizerSend(p, c) PROVE TypeInv'
  <2>1. c \in Proc /\ c \notin Op /\ pc[c] = "idle"
    BY <1>20 DEF FinalizerSend, FinalizerFree
  <2>2. PICK q \in Proc : at' = [at EXCEPT ![c] = q]
    BY <1>20 DEF FinalizerSend, ListenersAt
  <2>3. PICK v \in Request : v.arg = None /\ req' = [req EXCEPT ![c] = v]
    <3>1. PICK v : v = [NoRequest EXCEPT !.kind = "terminate", !.caller = p, !.target = c]
      OBVIOUS
    <3>2. v.arg = None /\ v \in Request
      BY <2>1, <3>1 DEF NoRequest
    <3>3. req' = [req EXCEPT ![c] = v]
      BY <1>20, <3>1 DEF FinalizerSend
    <3>4. QED
      BY <3>2, <3>3
  <2>4. /\ req' \in [Conn -> Request] /\ req'[c].arg = None
        /\ \A x \in Conn \ {c} : req'[x] = req[x]
    BY <2>1, <2>3
  <2>5. ReferencesHaveAddresses'
    <3>1. /\ addr' = addr /\ known' = known /\ startup' = startup
          /\ \A o \in Op : pc'[o] = pc[o] /\ req'[o] = req[o]
      BY <1>20, <2>1, <2>4 DEF FinalizerSend, procVars
    <3>2. \A o \in Conn : req'[o].arg # None => req[o].arg = req'[o].arg
      BY <2>4
    <3>3. QED
      BY <3>1, <3>2
  <2>6. ServedByOne'
    BY <1>20, <2>1, <2>2 DEF FinalizerSend, procVars
  <2>7. TypeOK'
    BY <1>20, <2>1, <2>2, <2>4 DEF FinalizerSend, procVars
  <2>8. QED
    BY <2>5, <2>6, <2>7
<1>21. ASSUME NEW p \in Proc, NEW c \in todo[p], FinalizerSkip(p, c) PROVE TypeInv'
  BY <1>21 DEF FinalizerSkip, connVars
<1>22. ASSUME NEW p \in Proc, NEW c \in todo[p], FinalizerNext(p, c) PROVE TypeInv'
  BY <1>22 DEF FinalizerNext
<1>23. ASSUME NEW p \in Proc, Exit(p) PROVE TypeInv'
  BY <1>23 DEF Exit, connVars
<1>24. ASSUME NEW q \in Proc, Crash(q) PROVE TypeInv'
  BY <1>24 DEF Crash, Queue, Disconnect
<1>25. ASSUME UNCHANGED vars PROVE TypeInv'
  BY <1>25 DEF vars, procVars, connVars
<1>26. QED
  BY <1>1, <1>2, <1>3, <1>4, <1>5, <1>6, <1>7, <1>8, <1>9, <1>10, <1>11, <1>12,
     <1>13, <1>14, <1>15, <1>16, <1>17, <1>18, <1>19, <1>20, <1>21, <1>22, <1>23,
     <1>24, <1>25
  DEF Next, Creation, StartOp, Client, Accept, Finish, Finalizer, Shutdown, Ended

(* Type correctness, for any number of processes, ports and operations.    *)
THEOREM TypeCorrect == Spec => []TypeOK
<1>1. TypeInv => TypeOK
  BY DEF TypeInv
<1>2. QED
  BY InitTypes, StepTypes, <1>1, PTL DEF Spec

-----------------------------------------------------------------------------
(* No answer and no execution at the start.                                *)
LEMMA InitCalls == Init => CallInv
  BY DEF Init, CallInv, NoRequest

(* Every step keeps the account of the calls.                              *)
LEMMA StepCalls == TypeInv /\ CallInv /\ [Next]_vars => CallInv'
<1> SUFFICES ASSUME TypeInv, CallInv, [Next]_vars PROVE CallInv'
  OBVIOUS
<1>0. Op \subseteq Conn /\ Proc \subseteq Conn
  BY DEF Conn
<1> USE ActorsAssumption, <1>0 DEF TypeInv, TypeOK, ServedByOne, CallInv
<1>1. ASSUME NEW p \in Proc, NEW c \in Proc, Create(p, c) PROVE CallInv'
  BY <1>1 DEF Create, connVars
<1>2. ASSUME NEW p \in Proc, ConstructorOk(p) PROVE CallInv'
  BY <1>2 DEF ConstructorOk, connVars
<1>3. ASSUME NEW p \in Proc, ConstructorFail(p) PROVE CallInv'
  BY <1>3 DEF ConstructorFail, connVars
<1>4. ASSUME NEW p \in Proc, CreateReturn(p) PROVE CallInv'
  BY <1>4 DEF CreateReturn, connVars
<1>5. ASSUME NEW p \in Proc, CreateRaise(p) PROVE CallInv'
  BY <1>5 DEF CreateRaise, connVars
<1>6. ASSUME NEW p \in Proc, NEW o \in Op, NEW k \in {"call", "terminate"},
             NEW r \in known[p], Start(p, o, k, r)
      PROVE  CallInv'
  BY <1>6 DEF Start
<1>7. ASSUME NEW o \in Op, Connect(o) PROVE CallInv'
  BY <1>7 DEF Connect
<1>8. ASSUME NEW o \in Op, ConnectRefused(o) PROVE CallInv'
  BY <1>8 DEF ConnectRefused, Disconnect
<1>9. ASSUME NEW o \in Op, SerializeFails(o) PROVE CallInv'
  BY <1>9 DEF SerializeFails
<1>10. ASSUME NEW o \in Op, TerminatePop(o) PROVE CallInv'
  BY <1>10 DEF TerminatePop
<1>11. ASSUME NEW o \in Op, TerminateJoined(o) PROVE CallInv'
  BY <1>11 DEF TerminateJoined
<1>12. ASSUME NEW q \in Proc, NEW o \in Conn, AcceptCall(q, o) PROVE CallInv'
  BY <1>12 DEF AcceptCall, Queue
<1>13. ASSUME NEW q \in Proc, NEW o \in Conn, RejectCall(q, o) PROVE CallInv'
  BY <1>13 DEF RejectCall, Queue
<1>14. ASSUME NEW q \in Proc, NEW o \in Conn, AcceptBroken(q, o) PROVE CallInv'
  BY <1>14 DEF AcceptBroken, Queue
<1>15. ASSUME NEW q \in Proc, NEW o \in Conn, AcceptTerminate(q, o) PROVE CallInv'
  BY <1>15 DEF AcceptTerminate, Queue, Disconnect
<1>16. ASSUME NEW q \in Proc, NEW how \in {"value", "raised"},
              NEW r \in known[q] \cup {None}, Respond(q, how, r)
       PROVE  CallInv'
  BY <1>16 DEF Respond, BodyDone
<1>17. ASSUME NEW q \in Proc, RespondToDead(q) PROVE CallInv'
  BY <1>17 DEF RespondToDead, BodyDone
<1>18. ASSUME NEW q \in Proc, CloseListener(q) PROVE CallInv'
  BY <1>18 DEF CloseListener, Queue, Disconnect
<1>19. ASSUME MainExit PROVE CallInv'
  BY <1>19 DEF MainExit, connVars
<1>20. ASSUME NEW p \in Proc, NEW c \in todo[p], FinalizerSend(p, c) PROVE CallInv'
  BY <1>20 DEF FinalizerSend, FinalizerFree, NoRequest
<1>21. ASSUME NEW p \in Proc, NEW c \in todo[p], FinalizerSkip(p, c) PROVE CallInv'
  BY <1>21 DEF FinalizerSkip, connVars
<1>22. ASSUME NEW p \in Proc, NEW c \in todo[p], FinalizerNext(p, c) PROVE CallInv'
  BY <1>22 DEF FinalizerNext
<1>23. ASSUME NEW p \in Proc, Exit(p) PROVE CallInv'
  BY <1>23 DEF Exit, connVars
<1>24. ASSUME NEW q \in Proc, Crash(q) PROVE CallInv'
  BY <1>24 DEF Crash, Queue, Disconnect
<1>25. ASSUME UNCHANGED vars PROVE CallInv'
  BY <1>25 DEF vars, connVars
<1>26. QED
  BY <1>1, <1>2, <1>3, <1>4, <1>5, <1>6, <1>7, <1>8, <1>9, <1>10, <1>11, <1>12,
     <1>13, <1>14, <1>15, <1>16, <1>17, <1>18, <1>19, <1>20, <1>21, <1>22, <1>23,
     <1>24, <1>25
  DEF Next, Creation, StartOp, Client, Accept, Finish, Finalizer, Shutdown, Ended

(* A call runs at most once, an answer means that it ran, and "the actor   *)
(* died" that it did not, unless the actor was killed while running it.    *)
THEOREM CallsAreAccountedFor == Spec => []CallsAccountedFor
<1>1. TypeInv /\ CallInv => CallsAccountedFor
  <2> SUFFICES ASSUME TypeInv, CallInv, NEW o \in Op
               PROVE  /\ execs[o] <= 1
                      /\ reply[o] = "value" => execs[o] = 1
                      /\ reply[o] = "died" /\ execs[o] = 1 => at[o] \in killed
    BY DEF CallsAccountedFor
  <2>1. o \in Conn
    BY DEF Conn
  <2>2. pc[o] \in PC
    BY <2>1 DEF TypeInv, TypeOK
  <2>3. QED
    BY <2>1, <2>2 DEF PC, CallInv
<1>2. QED
  BY InitTypes, StepTypes, InitCalls, StepCalls, <1>1, PTL DEF Spec

-----------------------------------------------------------------------------
(* What keeps a terminated actor terminated when no port is given out      *)
(* twice: an address identifies its actor, so requests arrive at the actor *)
(* the reference was made for, and a terminate() that is past its request  *)
(* has stopped exactly that actor.                                         *)
Gone(q) == status[q] \in {"closing", "exiting", "dead"}

StopInv ==
  /\ \A p, q \in Proc : addr[p] \in Port /\ addr[p] = addr[q] => p = q
  /\ \A q \in Proc : addr[q] \in Port => status[q] \notin {"unborn", "init"}
  /\ \A o \in Op : pc[o] \in {"queued", "served"} => at[o] = req[o].target
  /\ \A o \in Op : req[o].kind = "terminate" /\ pc[o] \in {"closed", "joining", "done"}
                   => Gone(req[o].target)
  /\ \A o \in Op : req[o].late => pc[o] # "idle" /\ Gone(req[o].target)
  /\ TerminatedStaysDead

(* Nothing is terminated at the start.                                     *)
LEMMA InitStop == Init => StopInv
  BY ActorsAssumption DEF Init, StopInv, TerminatedStaysDead, NoRequest, Conn

(* Without port reuse every step keeps it so.                              *)
LEMMA StepStop == PortReuse = FALSE /\ TypeInv /\ CallInv /\ StopInv /\ [Next]_vars => StopInv'
<1> SUFFICES ASSUME PortReuse = FALSE, TypeInv, CallInv, StopInv, [Next]_vars PROVE StopInv'
  OBVIOUS
<1>0. Op \subseteq Conn /\ Proc \subseteq Conn
  BY DEF Conn
<1> USE ActorsAssumption, <1>0 DEF TypeInv, TypeOK, ReferencesHaveAddresses,
     StopInv, Gone, TerminatedStaysDead, Status
<1>1. ASSUME NEW p \in Proc, NEW c \in Proc, Create(p, c) PROVE StopInv'
  BY <1>1 DEF Create, connVars
<1>2. ASSUME NEW p \in Proc, ConstructorOk(p) PROVE StopInv'
  BY <1>2 DEF ConstructorOk, FreePort, connVars
<1>3. ASSUME NEW p \in Proc, ConstructorFail(p) PROVE StopInv'
  BY <1>3 DEF ConstructorFail, connVars
<1>4. ASSUME NEW p \in Proc, CreateReturn(p) PROVE StopInv'
  BY <1>4 DEF CreateReturn, connVars
<1>5. ASSUME NEW p \in Proc, CreateRaise(p) PROVE StopInv'
  BY <1>5 DEF CreateRaise, connVars
<1>6. ASSUME NEW p \in Proc, NEW o \in Op, NEW k \in {"call", "terminate"},
             NEW r \in known[p], Start(p, o, k, r)
      PROVE  StopInv'
  <2>1. r \in Terminated => Gone(r)
    BY <1>6 DEF Terminated
  <2>2. req'[o].late = (r \in Terminated) /\ req'[o].target = r /\ pc'[o] = "spawned"
    BY <1>6 DEF Start
  <2>3. execs[o] = 0
    BY <1>6 DEF Start, CallInv
  <2>4. \A x \in Op \ {o} : req'[x] = req[x] /\ pc'[x] = pc[x]
    BY <1>6 DEF Start
  <2>5. QED
    BY <1>6, <2>1, <2>2, <2>3, <2>4 DEF Start, procVars
<1>7. ASSUME NEW o \in Op, Connect(o) PROVE StopInv'
  BY <1>7 DEF Connect, ListenersAt, procVars
<1>8. ASSUME NEW o \in Op, ConnectRefused(o) PROVE StopInv'
  <2>1. Gone(req[o].target)
    BY <1>8 DEF ConnectRefused, ListenersAt
  <2>2. QED
    BY <1>8, <2>1 DEF ConnectRefused, Disconnect, procVars
<1>9. ASSUME NEW o \in Op, SerializeFails(o) PROVE StopInv'
  BY <1>9 DEF SerializeFails, procVars
<1>10. ASSUME NEW o \in Op, TerminatePop(o) PROVE StopInv'
  BY <1>10 DEF TerminatePop
<1>11. ASSUME NEW o \in Op, TerminateJoined(o) PROVE StopInv'
  BY <1>11 DEF TerminateJoined, procVars
<1>12. ASSUME NEW q \in Proc, NEW o \in Conn, AcceptCall(q, o) PROVE StopInv'
  <2>1. status[q] = "serving" /\ pc[o] = "queued" /\ at[o] = q /\ req[o].kind = "call"
    BY <1>12 DEF AcceptCall, Queue, Accepting
  <2>2. o \in Op => ~req[o].late
    BY <2>1
  <2>3. \A x \in Proc : Gone(x) => Gone(x)'
    BY <1>12, <2>1 DEF AcceptCall
  <2>4. TerminatedStaysDead'
    BY <1>12, <2>2 DEF AcceptCall
  <2>5. QED
    BY <1>12, <2>1, <2>3, <2>4 DEF AcceptCall
<1>13. ASSUME NEW q \in Proc, NEW o \in Conn, RejectCall(q, o) PROVE StopInv'
  BY <1>13 DEF RejectCall, Queue, procVars
<1>14. ASSUME NEW q \in Proc, NEW o \in Conn, AcceptBroken(q, o) PROVE StopInv'
  BY <1>14 DEF AcceptBroken, Queue, Accepting
<1>15. ASSUME NEW q \in Proc, NEW o \in Conn, AcceptTerminate(q, o) PROVE StopInv'
  BY <1>15 DEF AcceptTerminate, Accepting, Queue, Disconnect
<1>16. ASSUME NEW q \in Proc, NEW how \in {"value", "raised"},
              NEW r \in known[q] \cup {None}, Respond(q, how, r)
       PROVE  StopInv'
  <2> DEFINE o == cur[q]
  <2>1. status[q] = "busy" /\ o \in Conn /\ pc[o] = "served" /\ req[o].kind = "call"
    BY <1>16 DEF Respond, BodyDone, Running, CallInv, ServedByOne
  <2>2. \A x \in Proc : Gone(x) => Gone(x)'
    BY <1>16, <2>1 DEF Respond
  <2>3. QED
    BY <1>16, <2>1, <2>2 DEF Respond
<1>17. ASSUME NEW q \in Proc, RespondToDead(q) PROVE StopInv'
  BY <1>17 DEF RespondToDead, BodyDone, Running
<1>18. ASSUME NEW q \in Proc, CloseListener(q) PROVE StopInv'
  BY <1>18 DEF CloseListener, Queue, Disconnect
<1>19. ASSUME MainExit PROVE StopInv'
  BY <1>19 DEF MainExit, Running, connVars
<1>20. ASSUME NEW p \in Proc, NEW c \in todo[p], FinalizerSend(p, c) PROVE StopInv'
  BY <1>20 DEF FinalizerSend, FinalizerFree, NoRequest, procVars
<1>21. ASSUME NEW p \in Proc, NEW c \in todo[p], FinalizerSkip(p, c) PROVE StopInv'
  BY <1>21 DEF FinalizerSkip, connVars
<1>22. ASSUME NEW p \in Proc, NEW c \in todo[p], FinalizerNext(p, c) PROVE StopInv'
  BY <1>22 DEF FinalizerNext
<1>23. ASSUME NEW p \in Proc, Exit(p) PROVE StopInv'
  BY <1>23 DEF Exit, connVars
<1>24. ASSUME NEW q \in Proc, Crash(q) PROVE StopInv'
  BY <1>24 DEF Crash, CallInv, ServedByOne, Queue, Disconnect
<1>25. ASSUME UNCHANGED vars PROVE StopInv'
  BY <1>25 DEF vars, procVars, connVars
<1>26. QED
  BY <1>1, <1>2, <1>3, <1>4, <1>5, <1>6, <1>7, <1>8, <1>9, <1>10, <1>11, <1>12,
     <1>13, <1>14, <1>15, <1>16, <1>17, <1>18, <1>19, <1>20, <1>21, <1>22, <1>23,
     <1>24, <1>25
  DEF Next, Creation, StartOp, Client, Accept, Finish, Finalizer, Shutdown, Ended

(* When the system gives no port out twice, a call started after a         *)
(* terminate() of its actor has returned never runs.                       *)
THEOREM TerminatedForGood ==
  ASSUME PortReuse = FALSE
  PROVE  Spec => []TerminatedStaysDead
<1>1. StopInv => TerminatedStaysDead
  BY DEF StopInv
<1>2. QED
  BY InitTypes, StepTypes, InitCalls, StepCalls, InitStop, StepStop, <1>1, PTL DEF Spec

-----------------------------------------------------------------------------
(* The family of processes.                                                *)

(* A process that is being created has no address yet.                     *)
Newborn ==
  \A c \in Proc : status[c] \in {"unborn", "init"} => addr[c] = None /\ startup[c] = "none"

(* Its creator waits for it.                                               *)
Creator ==
  \A p \in Proc : making[p] # None =>
    /\ making[p] \in Proc /\ parent[making[p]] = p
    /\ status[p] \in {"init", "busy", "dead"}

Parentage ==
  \A c \in Proc : parent[c] # None =>
    /\ status[parent[c]] # "unborn" /\ status[c] # "unborn"
    /\ <<parent[c], c>> \in MayReach
    /\ status[c] = "init" => making[parent[c]] = c
    /\ status[c] \in {"serving", "busy"} => addr[c] \in Port

(* What is registered is a child, under its own address (create_actor).    *)
Registry ==
  /\ \A p \in Proc, a \in Port : owned[p][a] # None =>
       parent[owned[p][a]] = p /\ addr[owned[p][a]] = a
  /\ \A p \in Proc : \A c \in todo[p] : parent[c] = p /\ addr[c] \in Port

(* A process that was not killed ends after its children.                  *)
Ending ==
  /\ killed \subseteq {q \in Proc : status[q] = "dead"}
  /\ \A p \in Proc \ killed : status[p] = "dead" =>
       \A c \in Children(p) : status[c] = "dead"

FamilyInv == Newborn /\ Creator /\ Parentage /\ Registry /\ Ending

-----------------------------------------------------------------------------
(* Nobody has been created at the start.                                   *)
LEMMA InitFamily == Init => FamilyInv
  BY ActorsAssumption DEF Init, FamilyInv, Newborn, Creator, Parentage, Registry, Ending, Children

(* Every step keeps the family in order.                                   *)
LEMMA StepFamily == TypeInv /\ CallInv /\ FamilyInv /\ [Next]_vars => FamilyInv'
<1> SUFFICES ASSUME TypeInv, CallInv, FamilyInv, [Next]_vars PROVE FamilyInv'
  OBVIOUS
<1>0. Op \subseteq Conn /\ Proc \subseteq Conn
  BY DEF Conn
<1> USE ActorsAssumption, <1>0 DEF TypeInv, TypeOK, ReferencesHaveAddresses, FamilyInv, Newborn, Creator,
       Parentage, Registry, Ending, Children
<1>1. ASSUME NEW p \in Proc, NEW c \in Proc, Create(p, c) PROVE FamilyInv'
  <2>1. /\ status' = [status EXCEPT ![c] = "init"] /\ status[c] = "unborn"
        /\ parent' = [parent EXCEPT ![c] = p] /\ making' = [making EXCEPT ![p] = c]
        /\ making[p] = None /\ status[p] \in {"busy", "init"} /\ <<p, c>> \in MayReach
        /\ UNCHANGED <<addr, startup, owned, todo, killed>>
    BY <1>1 DEF Create
  <2>2. c \in Proc /\ p \in Proc /\ p # c /\ c # None
    BY <2>1
  <2>3. parent[c] = None
    BY <2>1, <2>2
  <2>4. ASSUME NEW x \in Proc, parent[x] = c PROVE FALSE
    <3>1. parent[x] # None
      BY <2>2, <2>4
    <3>2. status[parent[x]] # "unborn"
      BY <3>1
    <3>3. QED
      BY <2>1, <2>4, <3>2
  <2>5. Newborn' /\ Creator'
    BY <2>1, <2>2, <2>3
  <2>6. Parentage'
    <3>1. SUFFICES ASSUME NEW x \in Proc, parent'[x] # None
                   PROVE  /\ status'[parent'[x]] # "unborn" /\ status'[x] # "unborn"
                          /\ <<parent'[x], x>> \in MayReach
                          /\ status'[x] = "init" => making'[parent'[x]] = x
                          /\ status'[x] \in {"serving", "busy"} => addr'[x] \in Port
      OBVIOUS
    <3>2. CASE x = c
      <4>1. parent'[c] = p /\ status'[p] = status[p] /\ status'[c] = "init" /\ making'[p] = c
        BY <2>1, <2>2
      <4>2. QED
        BY <2>1, <3>2, <4>1
    <3>3. CASE x # c
      <4>1. parent'[x] = parent[x] /\ status'[x] = status[x] /\ addr'[x] = addr[x]
        BY <2>1, <3>3
      <4>2. parent[x] \in Proc /\ parent[x] # None
        BY <3>1, <4>1
      <4>3. parent[x] # c
        BY <2>4
      <4>4. status'[parent[x]] = status[parent[x]]
        BY <2>1, <4>2, <4>3
      <4>5. status[x] = "init" => making[parent[x]] = x
        BY <4>2
      <4>6. parent[x] # p => making'[parent[x]] = making[parent[x]]
        BY <2>1, <4>2
      <4>7. x # making[p]
        BY <2>1
      <4>8. QED
        BY <4>1, <4>2, <4>4, <4>5, <4>6, <4>7
    <3>4. QED
      BY <3>2, <3>3
  <2>7. Registry'
    <3>1. \A x \in Proc : c \notin todo[x] /\ \A a \in Port : owned[x][a] # c
      BY <2>2, <2>3
    <3>2. \A x \in Proc \ {c} : parent'[x] = parent[x]
      BY <2>1
    <3>3. QED
      BY <2>1, <3>1, <3>2
  <2>8. Ending'
    BY <2>1, <2>2, <2>3, <2>4
  <2>9. QED
    BY <2>5, <2>6, <2>7, <2>8
<1>2. ASSUME NEW p \in Proc, ConstructorOk(p) PROVE FamilyInv'
  BY <1>2 DEF ConstructorOk, connVars
<1>3. ASSUME NEW p \in Proc, ConstructorFail(p) PROVE FamilyInv'
  BY <1>3 DEF ConstructorFail, connVars, Owned
<1>4. ASSUME NEW p \in Proc, CreateReturn(p) PROVE FamilyInv'
  BY <1>4 DEF CreateReturn, connVars
<1>5. ASSUME NEW p \in Proc, CreateRaise(p) PROVE FamilyInv'
  BY <1>5 DEF CreateRaise, connVars
<1>6. ASSUME NEW p \in Proc, NEW o \in Op, NEW k \in {"call", "terminate"},
             NEW r \in known[p], Start(p, o, k, r) PROVE FamilyInv'
  BY <1>6 DEF Start, procVars
<1>7. ASSUME NEW o \in Op, Connect(o) PROVE FamilyInv'
  BY <1>7 DEF Connect, procVars
<1>8. ASSUME NEW o \in Op, ConnectRefused(o) PROVE FamilyInv'
  BY <1>8 DEF ConnectRefused, procVars
<1>9. ASSUME NEW o \in Op, SerializeFails(o) PROVE FamilyInv'
  BY <1>9 DEF SerializeFails, procVars
<1>10. ASSUME NEW o \in Op, TerminatePop(o) PROVE FamilyInv'
  BY <1>10 DEF TerminatePop
<1>11. ASSUME NEW o \in Op, TerminateJoined(o) PROVE FamilyInv'
  BY <1>11 DEF TerminateJoined, procVars
<1>12. ASSUME NEW q \in Proc, NEW o \in Conn, AcceptCall(q, o) PROVE FamilyInv'
  BY <1>12 DEF AcceptCall, Accepting
<1>13. ASSUME NEW q \in Proc, NEW o \in Conn, RejectCall(q, o) PROVE FamilyInv'
  BY <1>13 DEF RejectCall, procVars
<1>14. ASSUME NEW q \in Proc, NEW o \in Conn, AcceptBroken(q, o)
       PROVE  FamilyInv'
  BY <1>14 DEF AcceptBroken, Accepting
<1>15. ASSUME NEW q \in Proc, NEW o \in Conn, AcceptTerminate(q, o)
       PROVE  FamilyInv'
  BY <1>15 DEF AcceptTerminate, Accepting
<1>16. ASSUME NEW q \in Proc, NEW how \in {"value", "raised"},
              NEW r \in known[q] \cup {None}, Respond(q, how, r)
       PROVE  FamilyInv'
  BY <1>16 DEF Respond, BodyDone, Running
<1>17. ASSUME NEW q \in Proc, RespondToDead(q) PROVE FamilyInv'
  BY <1>17 DEF RespondToDead, BodyDone, Running
<1>18. ASSUME NEW q \in Proc, CloseListener(q) PROVE FamilyInv'
  BY <1>18 DEF CloseListener, Owned
<1>19. ASSUME MainExit PROVE FamilyInv'
  BY <1>19 DEF MainExit, connVars, Owned, Running
<1>20. ASSUME NEW p \in Proc, NEW c \in todo[p], FinalizerSend(p, c)
       PROVE  FamilyInv'
  BY <1>20 DEF FinalizerSend, procVars
<1>21. ASSUME NEW p \in Proc, NEW c \in todo[p], FinalizerSkip(p, c)
       PROVE  FamilyInv'
  BY <1>21 DEF FinalizerSkip, connVars
<1>22. ASSUME NEW p \in Proc, NEW c \in todo[p], FinalizerNext(p, c)
       PROVE  FamilyInv'
  BY <1>22 DEF FinalizerNext
<1>23. ASSUME NEW p \in Proc, Exit(p) PROVE FamilyInv'
  BY <1>23 DEF Exit, connVars, ChildrenEnded
<1>24. ASSUME NEW q \in Proc, Crash(q) PROVE FamilyInv'
  BY <1>24 DEF Crash
<1>25. ASSUME UNCHANGED vars PROVE FamilyInv'
  BY <1>25 DEF vars, procVars, connVars
<1>26. QED
  BY <1>1, <1>2, <1>3, <1>4, <1>5, <1>6, <1>7, <1>8, <1>9, <1>10, <1>11, <1>12,
     <1>13, <1>14, <1>15, <1>16, <1>17, <1>18, <1>19, <1>20, <1>21, <1>22,
     <1>23, <1>24, <1>25
  DEF Next, Creation, StartOp, Client, Accept, Finish, Finalizer, Shutdown, Ended
-----------------------------------------------------------------------------
(* What a termination request waits for: it pops a child of its caller and *)
(* returns when that child is dead (_terminate_ref).                       *)
JoinInv ==
  /\ \A o \in Op : pc[o] # "idle" => req[o].kind \in {"call", "terminate"}
  /\ \A o \in Op : pc[o] \in {"closed", "joining"} => req[o].kind = "terminate"
  /\ \A o \in Op : pc[o] = "joining" => at[o] \in Proc /\ parent[at[o]] = req[o].caller
  /\ \A o \in Op : pc[o] = "done" /\ req[o].kind = "terminate" /\ at[o] # None
                   => status[at[o]] = "dead"

(* Nothing has been asked at the start.                                    *)
LEMMA InitJoins == Init => JoinInv
  BY DEF Init, JoinInv, Conn

(* Every step keeps it so.                                                 *)
LEMMA StepJoins == TypeInv /\ CallInv /\ FamilyInv /\ JoinInv /\ [Next]_vars => JoinInv'
<1> SUFFICES ASSUME TypeInv, CallInv, FamilyInv, JoinInv, [Next]_vars PROVE JoinInv'
  OBVIOUS
<1>0. Op \subseteq Conn /\ Proc \subseteq Conn
  BY DEF Conn
<1> USE ActorsAssumption, <1>0 DEF TypeInv, TypeOK, ReferencesHaveAddresses, JoinInv
<1>1. ASSUME NEW p \in Proc, NEW c \in Proc, Create(p, c) PROVE JoinInv'
  <2>1. status[c] = "unborn" /\ parent[c] = None
    BY <1>1 DEF Create, FamilyInv, Parentage
  <2>2. \A x \in Proc \ {c} : parent'[x] = parent[x] /\ status'[x] = status[x]
    BY <1>1 DEF Create
  <2>3. \A o \in Op : pc[o] = "joining" => at[o] # c
    BY <2>1
  <2>4. \A o \in Op : pc[o] = "done" /\ req[o].kind = "terminate" /\ at[o] # None
                    => at[o] \in Proc /\ at[o] # c
    BY <2>1
  <2>5. UNCHANGED <<req, pc, at>>
    BY <1>1 DEF Create, connVars
  <2>6. QED
    BY <2>2, <2>3, <2>4, <2>5
<1>2. ASSUME NEW p \in Proc, ConstructorOk(p) PROVE JoinInv'
  BY <1>2 DEF ConstructorOk, connVars
<1>3. ASSUME NEW p \in Proc, ConstructorFail(p) PROVE JoinInv'
  BY <1>3 DEF ConstructorFail, connVars
<1>4. ASSUME NEW p \in Proc, CreateReturn(p) PROVE JoinInv'
  BY <1>4 DEF CreateReturn, connVars
<1>5. ASSUME NEW p \in Proc, CreateRaise(p) PROVE JoinInv'
  BY <1>5 DEF CreateRaise, connVars
<1>6. ASSUME NEW p \in Proc, NEW o \in Op, NEW k \in {"call", "terminate"},
             NEW r \in known[p], Start(p, o, k, r) PROVE JoinInv'
  BY <1>6 DEF Start, procVars
<1>7. ASSUME NEW o \in Op, Connect(o) PROVE JoinInv'
  BY <1>7 DEF Connect, procVars
<1>8. ASSUME NEW o \in Op, ConnectRefused(o) PROVE JoinInv'
  BY <1>8 DEF ConnectRefused, procVars, Disconnect
<1>9. ASSUME NEW o \in Op, SerializeFails(o) PROVE JoinInv'
  BY <1>9 DEF SerializeFails, procVars
<1>10. ASSUME NEW o \in Op, TerminatePop(o) PROVE JoinInv'
  <2> DEFINE p == req[o].caller
             a == addr[req[o].target]
             c == owned[p][a]
  <2>1. p \in Proc /\ a \in Port /\ c \in Proc \cup {None} /\ pc[o] = "closed"
    BY <1>10 DEF TerminatePop
  <2>2. /\ pc' = [pc EXCEPT ![o] = IF c = None THEN "done" ELSE "joining"]
        /\ at' = [at EXCEPT ![o] = c] /\ UNCHANGED <<req, parent, status>>
    BY <1>10 DEF TerminatePop
  <2>3. c # None => parent[c] = p
    BY <2>1 DEF FamilyInv, Registry
  <2> HIDE DEF c, a
  <2>4. QED
    BY <2>1, <2>2, <2>3
<1>11. ASSUME NEW o \in Op, TerminateJoined(o) PROVE JoinInv'
  BY <1>11 DEF TerminateJoined, procVars
<1>12. ASSUME NEW q \in Proc, NEW o \in Conn, AcceptCall(q, o) PROVE JoinInv'
  BY <1>12 DEF AcceptCall, Queue, Accepting
<1>13. ASSUME NEW q \in Proc, NEW o \in Conn, RejectCall(q, o) PROVE JoinInv'
  BY <1>13 DEF RejectCall, procVars, Queue
<1>14. ASSUME NEW q \in Proc, NEW o \in Conn, AcceptBroken(q, o) PROVE JoinInv'
  BY <1>14 DEF AcceptBroken, Accepting, Queue
<1>15. ASSUME NEW q \in Proc, NEW o \in Conn, AcceptTerminate(q, o)
       PROVE  JoinInv'
  BY <1>15 DEF AcceptTerminate, Accepting, Queue, Disconnect
<1>16. ASSUME NEW q \in Proc, NEW how \in {"value", "raised"},
              NEW r \in known[q] \cup {None}, Respond(q, how, r) PROVE JoinInv'
  BY <1>16 DEF Respond, BodyDone, Running, CallInv, ServedByOne
<1>17. ASSUME NEW q \in Proc, RespondToDead(q) PROVE JoinInv'
  BY <1>17 DEF RespondToDead, BodyDone, Running, CallInv, ServedByOne
<1>18. ASSUME NEW q \in Proc, CloseListener(q) PROVE JoinInv'
  BY <1>18 DEF CloseListener, Queue, Disconnect
<1>19. ASSUME MainExit PROVE JoinInv'
  BY <1>19 DEF MainExit, connVars, Running
<1>20. ASSUME NEW p \in Proc, NEW c \in todo[p], FinalizerSend(p, c)
       PROVE  JoinInv'
  BY <1>20 DEF FinalizerSend, procVars, FinalizerFree
<1>21. ASSUME NEW p \in Proc, NEW c \in todo[p], FinalizerSkip(p, c)
       PROVE  JoinInv'
  BY <1>21 DEF FinalizerSkip, connVars
<1>22. ASSUME NEW p \in Proc, NEW c \in todo[p], FinalizerNext(p, c)
       PROVE  JoinInv'
  BY <1>22 DEF FinalizerNext
<1>23. ASSUME NEW p \in Proc, Exit(p) PROVE JoinInv'
  BY <1>23 DEF Exit, connVars
<1>24. ASSUME NEW q \in Proc, Crash(q) PROVE JoinInv'
  BY <1>24 DEF Crash, Disconnect, Queue, CallInv, ServedByOne
<1>25. ASSUME UNCHANGED vars PROVE JoinInv'
  BY <1>25 DEF vars, procVars, connVars
<1>26. QED
  BY <1>1, <1>2, <1>3, <1>4, <1>5, <1>6, <1>7, <1>8, <1>9, <1>10, <1>11, <1>12,
     <1>13, <1>14, <1>15, <1>16, <1>17, <1>18, <1>19, <1>20, <1>21, <1>22,
     <1>23, <1>24, <1>25
  DEF Next, Creation, StartOp, Client, Accept, Finish, Finalizer, Shutdown, Ended

(* terminate: "Terminate an actor and all actors that it owns".  The actor *)
(* that was joined has ended, a process ends after its children, and so    *)
(* has everything below it; also when ports are given out again.           *)
THEOREM TerminatedTree == Spec => []TerminateTakesTree
<1>1. TypeInv /\ FamilyInv /\ JoinInv => TerminateTakesTree
  <2> SUFFICES ASSUME TypeInv, FamilyInv, JoinInv, killed = {}, NEW o \in Op,
                      req[o].kind = "terminate", pc[o] = "done", at[o] # None
               PROVE  TreeGone(at[o])
    BY DEF TerminateTakesTree
  <2> DEFINE S == {q \in Proc : status[q] = "dead"}
  <2>1. at[o] \in Proc /\ status[at[o]] = "dead"
    BY DEF TypeInv, TypeOK, JoinInv, Conn
  <2>2. \A q \in S : Children(q) \subseteq S
    BY DEF FamilyInv, Ending, Children
  <2>3. QED
    BY <2>1, <2>2 DEF TreeGone
<1>2. QED
  BY InitTypes, StepTypes, InitCalls, StepCalls, InitFamily, StepFamily, InitJoins, StepJoins,
     <1>1, PTL DEF Spec

-----------------------------------------------------------------------------
(* What the exit finalizer relies on when no port is given out twice: its  *)
(* requests arrive at the actors they were made for, and an actor whose    *)
(* request ended is on its way out (_terminate_at_address).                *)
FinalInv ==
  /\ \A c \in Proc : pc[c] # "idle" =>
       req[c].kind = "terminate" /\ req[c].target = c /\ addr[c] \in Port
  /\ \A c \in Proc : pc[c] = "queued" => at[c] = c
  /\ \A c \in Proc : pc[c] \in {"closed", "done"} => Gone(c)

(* Nothing is asked at the start.                                          *)
LEMMA InitFinal == Init => FinalInv
  BY DEF Init, FinalInv, Conn

(* Every step keeps it so.                                                 *)
LEMMA StepFinal ==
  PortReuse = FALSE /\ TypeInv /\ CallInv /\ StopInv /\ FamilyInv /\ FinalInv /\ [Next]_vars
  => FinalInv'
<1> SUFFICES ASSUME PortReuse = FALSE, TypeInv, CallInv, StopInv, FamilyInv, FinalInv, [Next]_vars
             PROVE  FinalInv'
  OBVIOUS
<1>0. Op \subseteq Conn /\ Proc \subseteq Conn
  BY DEF Conn
<1> USE ActorsAssumption, <1>0 DEF TypeInv, TypeOK, ReferencesHaveAddresses, FinalInv, Gone
<1>1. ASSUME NEW p \in Proc, NEW c \in Proc, Create(p, c) PROVE FinalInv'
  BY <1>1 DEF Create, connVars
<1>2. ASSUME NEW p \in Proc, ConstructorOk(p) PROVE FinalInv'
  BY <1>2 DEF ConstructorOk, connVars, FamilyInv, Newborn
<1>3. ASSUME NEW p \in Proc, ConstructorFail(p) PROVE FinalInv'
  BY <1>3 DEF ConstructorFail, connVars
<1>4. ASSUME NEW p \in Proc, CreateReturn(p) PROVE FinalInv'
  BY <1>4 DEF CreateReturn, connVars
<1>5. ASSUME NEW p \in Proc, CreateRaise(p) PROVE FinalInv'
  BY <1>5 DEF CreateRaise, connVars
<1>6. ASSUME NEW p \in Proc, NEW o \in Op, NEW k \in {"call", "terminate"},
             NEW r \in known[p], Start(p, o, k, r) PROVE FinalInv'
  BY <1>6 DEF Start, procVars
<1>7. ASSUME NEW o \in Op, Connect(o) PROVE FinalInv'
  BY <1>7 DEF Connect, procVars
<1>8. ASSUME NEW o \in Op, ConnectRefused(o) PROVE FinalInv'
  BY <1>8 DEF ConnectRefused, procVars, Disconnect
<1>9. ASSUME NEW o \in Op, SerializeFails(o) PROVE FinalInv'
  BY <1>9 DEF SerializeFails, procVars
<1>10. ASSUME NEW o \in Op, TerminatePop(o) PROVE FinalInv'
  BY <1>10 DEF TerminatePop
<1>11. ASSUME NEW o \in Op, TerminateJoined(o) PROVE FinalInv'
  BY <1>11 DEF TerminateJoined, procVars
<1>12. ASSUME NEW q \in Proc, NEW o \in Conn, AcceptCall(q, o) PROVE FinalInv'
  BY <1>12 DEF AcceptCall, Queue, Accepting
<1>13. ASSUME NEW q \in Proc, NEW o \in Conn, RejectCall(q, o) PROVE FinalInv'
  BY <1>13 DEF RejectCall, procVars, Queue
<1>14. ASSUME NEW q \in Proc, NEW o \in Conn, AcceptBroken(q, o)
       PROVE  FinalInv'
  BY <1>14 DEF AcceptBroken, Accepting, Queue
<1>15. ASSUME NEW q \in Proc, NEW o \in Conn, AcceptTerminate(q, o)
       PROVE  FinalInv'
  BY <1>15 DEF AcceptTerminate, Accepting, Queue, Disconnect
<1>16. ASSUME NEW q \in Proc, NEW how \in {"value", "raised"},
              NEW r \in known[q] \cup {None}, Respond(q, how, r)
       PROVE  FinalInv'
  <2>1. cur[q] # None => cur[q] \in Conn /\ pc[cur[q]] = "served" /\ req[cur[q]].kind = "call"
    BY DEF CallInv, ServedByOne
  <2>2. cur[q] \notin Proc
    BY <2>1
  <2>3. QED
    BY <1>16, <2>1, <2>2 DEF Respond, BodyDone, Running
<1>17. ASSUME NEW q \in Proc, RespondToDead(q) PROVE FinalInv'
  BY <1>17 DEF RespondToDead, BodyDone, Running, CallInv, ServedByOne
<1>18. ASSUME NEW q \in Proc, CloseListener(q) PROVE FinalInv'
  BY <1>18 DEF CloseListener, Queue, Disconnect
<1>19. ASSUME MainExit PROVE FinalInv'
  BY <1>19 DEF MainExit, connVars, Running
<1>20. ASSUME NEW p \in Proc, NEW c \in todo[p], FinalizerSend(p, c)
       PROVE  FinalInv'
  <2>1. c \in Proc /\ pc[c] = "idle" /\ pc' = [pc EXCEPT ![c] = "queued"]
    BY <1>20 DEF FinalizerSend, FinalizerFree
  <2>2. PICK q \in ListenersAt(addr[c]) : at' = [at EXCEPT ![c] = q]
    BY <1>20 DEF FinalizerSend
  <2>3. q = c /\ addr[c] \in Port
    BY <2>1, <2>2 DEF ListenersAt, StopInv, FamilyInv, Registry
  <2>4. req' = [req EXCEPT ![c] = req'[c]] /\ req'[c].kind = "terminate" /\ req'[c].target = c
    BY <1>20, <2>1 DEF FinalizerSend, NoRequest
  <2>5. QED
    BY <1>20, <2>1, <2>2, <2>3, <2>4 DEF FinalizerSend, procVars
<1>21. ASSUME NEW p \in Proc, NEW c \in todo[p], FinalizerSkip(p, c)
       PROVE  FinalInv'
  BY <1>21 DEF FinalizerSkip, connVars
<1>22. ASSUME NEW p \in Proc, NEW c \in todo[p], FinalizerNext(p, c)
       PROVE  FinalInv'
  BY <1>22 DEF FinalizerNext
<1>23. ASSUME NEW p \in Proc, Exit(p) PROVE FinalInv'
  BY <1>23 DEF Exit, connVars
<1>24. ASSUME NEW q \in Proc, Crash(q) PROVE FinalInv'
  <2>1. cur[q] # None => cur[q] \in Conn /\ pc[cur[q]] = "served" /\ req[cur[q]].kind = "call"
    BY DEF CallInv, ServedByOne
  <2>2. cur[q] \notin Proc
    BY <2>1
  <2>3. QED
    BY <1>24, <2>1, <2>2 DEF Crash, Disconnect, Queue
<1>25. ASSUME UNCHANGED vars PROVE FinalInv'
  BY <1>25 DEF vars, procVars, connVars
<1>26. QED
  BY <1>1, <1>2, <1>3, <1>4, <1>5, <1>6, <1>7, <1>8, <1>9, <1>10, <1>11, <1>12,
     <1>13, <1>14, <1>15, <1>16, <1>17, <1>18, <1>19, <1>20, <1>21, <1>22,
     <1>23, <1>24, <1>25
  DEF Next, Creation, StartOp, Client, Accept, Finish, Finalizer, Shutdown, Ended

-----------------------------------------------------------------------------
(* An actor that is neither being created nor on its way out is registered *)
(* with its creator, and the finalizer has it on its list.                 *)
RegisteredInv ==
  \A p \in Proc \ killed : \A c \in Children(p) :
    making[p] # c /\ ~Gone(c) =>
      /\ owned[p][addr[c]] = c
      /\ status[p] = "exiting" => c \in todo[p]

(* A child that is neither being created nor on its way out has an address.*)
LEMMA Settled ==
  ASSUME TypeInv, FamilyInv, NEW c \in Proc, parent[c] # None, making[parent[c]] # c, ~Gone(c)
  PROVE  status[c] \in {"serving", "busy"} /\ addr[c] \in Port
  BY DEF TypeInv, TypeOK, Status, FamilyInv, Parentage, Gone

(* There are no children at the start.                                     *)
LEMMA InitRegistered == Init => RegisteredInv
  BY ActorsAssumption DEF Init, RegisteredInv, Children

(* Every step keeps it so.                                                 *)
LEMMA StepRegistered ==
  /\ PortReuse = FALSE /\ TypeInv /\ CallInv /\ StopInv /\ FamilyInv /\ JoinInv /\ FinalInv
  /\ RegisteredInv /\ [Next]_vars
  => RegisteredInv'
<1> SUFFICES ASSUME PortReuse = FALSE, TypeInv, CallInv, StopInv, FamilyInv, JoinInv, FinalInv,
                    RegisteredInv, [Next]_vars
             PROVE  RegisteredInv'
  OBVIOUS
<1>0. Op \subseteq Conn /\ Proc \subseteq Conn
  BY DEF Conn
<1> USE ActorsAssumption, <1>0 DEF TypeInv, TypeOK, RegisteredInv, Gone, Children, Status
<1>1. ASSUME NEW p \in Proc, NEW c \in Proc, Create(p, c) PROVE RegisteredInv'
  BY <1>1 DEF Create, connVars, FamilyInv, Parentage, Newborn, Creator
<1>2. ASSUME NEW p \in Proc, ConstructorOk(p) PROVE RegisteredInv'
  <2>1. /\ status[p] = "init" /\ status' = [status EXCEPT ![p] = "serving"]
        /\ UNCHANGED <<parent, making, owned, todo, killed>>
    BY <1>2 DEF ConstructorOk
  <2>2. \A x \in Proc \ {p} : status'[x] = status[x] /\ addr'[x] = addr[x]
    BY <1>2 DEF ConstructorOk
  <2>3. \A x \in Proc : parent[x] # None /\ making[parent[x]] # x => x # p
    BY <2>1 DEF FamilyInv, Parentage
  <2>4. SUFFICES ASSUME NEW x \in Proc \ killed, NEW y \in Proc, parent[y] = x, making[x] # y, ~Gone(y)'
                 PROVE  /\ owned[x][addr'[y]] = y
                        /\ status'[x] = "exiting" => y \in todo[x]
    BY <2>1
  <2>5. y # p
    BY <2>3, <2>4
  <2>6. ~Gone(y) /\ addr'[y] = addr[y]
    BY <2>2, <2>4, <2>5
  <2>7. status'[x] = "exiting" => status[x] = "exiting"
    BY <2>1
  <2>8. QED
    BY <2>4, <2>6, <2>7
<1>3. ASSUME NEW p \in Proc, ConstructorFail(p) PROVE RegisteredInv'
  <2>1. /\ todo' = [todo EXCEPT ![p] = Owned(p)]
        /\ status' = [status EXCEPT ![p] = "exiting"]
        /\ UNCHANGED <<addr, parent, making, owned, killed>>
    BY <1>3 DEF ConstructorFail
  <2>2. SUFFICES ASSUME NEW y \in Proc \ killed, NEW z \in Proc, parent[z] = y, making[y] # z, ~Gone(z)'
                 PROVE  /\ owned[y][addr[z]] = z
                        /\ status'[y] = "exiting" => z \in todo'[y]
    BY <2>1
  <2>3. ~Gone(z)
    BY <1>3, <2>1, <2>2 DEF ConstructorFail, Running
  <2>4. owned[y][addr[z]] = z /\ addr[z] \in Port
    BY <2>2, <2>3, Settled
  <2>5. z \in Owned(y)
    BY <2>4 DEF Owned
  <2>6. QED
    BY <2>1, <2>2, <2>3, <2>4, <2>5
<1>4. ASSUME NEW p \in Proc, CreateReturn(p) PROVE RegisteredInv'
  <2> DEFINE c == making[p]
  <2>0. c \in Proc /\ parent[c] = p /\ addr[c] \in Port
    BY <1>4 DEF CreateReturn, FamilyInv, Creator, ReferencesHaveAddresses
  <2>1. /\ status[p] \in {"busy", "init"}
        /\ owned' = [owned EXCEPT ![p] = [owned[p] EXCEPT ![addr[c]] = c]]
        /\ making' = [making EXCEPT ![p] = None]
        /\ UNCHANGED <<status, addr, parent, todo, killed>>
    BY <1>4 DEF CreateReturn
  <2>9. ASSUME NEW a \in Port PROVE owned'[p][a] = IF a = addr[c] THEN c ELSE owned[p][a]
    <3>1. owned'[p] = [owned[p] EXCEPT ![addr[c]] = c]
      BY <2>1
    <3>2. QED
      BY <3>1
  <2>2. SUFFICES ASSUME NEW x \in Proc \ killed, NEW y \in Proc, parent[y] = x, making'[x] # y, ~Gone(y)
                 PROVE  /\ owned'[x][addr[y]] = y
                        /\ status[x] = "exiting" => y \in todo[x]
    BY <2>1
  <2>3. CASE x # p
    BY <2>1, <2>2, <2>3
  <2>4. CASE x = p /\ y = c
    BY <2>0, <2>1, <2>4, <2>9
  <2>5. CASE x = p /\ y # c
    <3>1. owned[p][addr[y]] = y
      BY <2>1, <2>2, <2>5
    <3>2. addr[y] \in Port /\ addr[y] # addr[c]
      BY <2>0, <2>1, <2>2, <2>5, Settled DEF StopInv
    <3>3. QED
      BY <2>1, <2>5, <2>9, <3>1, <3>2
  <2>6. QED
    BY <2>3, <2>4, <2>5
<1>5. ASSUME NEW p \in Proc, CreateRaise(p) PROVE RegisteredInv'
  BY <1>5 DEF CreateRaise, connVars, FamilyInv, Creator
<1>6. ASSUME NEW p \in Proc, NEW o \in Op, NEW k \in {"call", "terminate"},
             NEW r \in known[p], Start(p, o, k, r) PROVE RegisteredInv'
  BY <1>6 DEF Start, procVars
<1>7. ASSUME NEW o \in Op, Connect(o) PROVE RegisteredInv'
  BY <1>7 DEF Connect, procVars
<1>8. ASSUME NEW o \in Op, ConnectRefused(o) PROVE RegisteredInv'
  BY <1>8 DEF ConnectRefused, procVars
<1>9. ASSUME NEW o \in Op, SerializeFails(o) PROVE RegisteredInv'
  BY <1>9 DEF SerializeFails, procVars
<1>10. ASSUME NEW o \in Op, TerminatePop(o) PROVE RegisteredInv'
  BY <1>10 DEF TerminatePop, FamilyInv, Registry, StopInv, JoinInv,
    ReferencesHaveAddresses
<1>11. ASSUME NEW o \in Op, TerminateJoined(o) PROVE RegisteredInv'
  BY <1>11 DEF TerminateJoined, procVars
<1>12. ASSUME NEW q \in Proc, NEW o \in Conn, AcceptCall(q, o)
       PROVE  RegisteredInv'
  BY <1>12 DEF AcceptCall, Accepting
<1>13. ASSUME NEW q \in Proc, NEW o \in Conn, RejectCall(q, o)
       PROVE  RegisteredInv'
  BY <1>13 DEF RejectCall, procVars
<1>14. ASSUME NEW q \in Proc, NEW o \in Conn, AcceptBroken(q, o)
       PROVE  RegisteredInv'
  BY <1>14 DEF AcceptBroken, Accepting
<1>15. ASSUME NEW q \in Proc, NEW o \in Conn, AcceptTerminate(q, o)
       PROVE  RegisteredInv'
  BY <1>15 DEF AcceptTerminate, Accepting
<1>16. ASSUME NEW q \in Proc, NEW how \in {"value", "raised"},
              NEW r \in known[q] \cup {None}, Respond(q, how, r)
       PROVE  RegisteredInv'
  BY <1>16 DEF Respond, BodyDone, Running
<1>17. ASSUME NEW q \in Proc, RespondToDead(q) PROVE RegisteredInv'
  BY <1>17 DEF RespondToDead, BodyDone, Running
<1>18. ASSUME NEW q \in Proc, CloseListener(q) PROVE RegisteredInv'
  <2>1. /\ todo' = [todo EXCEPT ![q] = Owned(q)]
        /\ status' = [status EXCEPT ![q] = "exiting"]
        /\ UNCHANGED <<addr, parent, making, owned, killed>>
    BY <1>18 DEF CloseListener
  <2>2. SUFFICES ASSUME NEW y \in Proc \ killed, NEW z \in Proc, parent[z] = y, making[y] # z, ~Gone(z)'
                 PROVE  /\ owned[y][addr[z]] = z
                        /\ status'[y] = "exiting" => z \in todo'[y]
    BY <2>1
  <2>3. ~Gone(z)
    BY <1>18, <2>1, <2>2 DEF CloseListener, Running
  <2>4. owned[y][addr[z]] = z /\ addr[z] \in Port
    BY <2>2, <2>3, Settled
  <2>5. z \in Owned(y)
    BY <2>4 DEF Owned
  <2>6. QED
    BY <2>1, <2>2, <2>3, <2>4, <2>5
<1>19. ASSUME MainExit PROVE RegisteredInv'
  <2>1. /\ todo' = [todo EXCEPT ![Main] = Owned(Main)]
        /\ status' = [status EXCEPT ![Main] = "exiting"]
        /\ UNCHANGED <<addr, parent, making, owned, killed>>
    BY <1>19 DEF MainExit
  <2>2. SUFFICES ASSUME NEW y \in Proc \ killed, NEW z \in Proc, parent[z] = y, making[y] # z, ~Gone(z)'
                 PROVE  /\ owned[y][addr[z]] = z
                        /\ status'[y] = "exiting" => z \in todo'[y]
    BY <2>1
  <2>3. ~Gone(z)
    BY <1>19, <2>1, <2>2 DEF MainExit, Running
  <2>4. owned[y][addr[z]] = z /\ addr[z] \in Port
    BY <2>2, <2>3, Settled
  <2>5. z \in Owned(y)
    BY <2>4 DEF Owned
  <2>6. QED
    BY <2>1, <2>2, <2>3, <2>4, <2>5
<1>20. ASSUME NEW p \in Proc, NEW c \in todo[p], FinalizerSend(p, c)
       PROVE  RegisteredInv'
  BY <1>20 DEF FinalizerSend, procVars
<1>21. ASSUME NEW p \in Proc, NEW c \in todo[p], FinalizerSkip(p, c)
       PROVE  RegisteredInv'
  <2>1. /\ c \in Proc /\ todo' = [todo EXCEPT ![p] = todo[p] \ {c}]
        /\ status[c] = "dead" \/ ListenersAt(addr[c]) = {}
        /\ UNCHANGED <<status, addr, parent, making, owned, killed>>
    BY <1>21 DEF FinalizerSkip
  <2>2. status[c] \notin {"serving", "busy"}
    BY <2>1 DEF ListenersAt
  <2>3. \A z \in Proc : parent[z] # None /\ making[parent[z]] # z /\ ~Gone(z) => z # c
    BY <2>2, Settled
  <2>4. QED
    BY <2>1, <2>3
<1>22. ASSUME NEW p \in Proc, NEW c \in todo[p], FinalizerNext(p, c)
       PROVE  RegisteredInv'
  BY <1>22 DEF FinalizerNext, FinalInv
<1>23. ASSUME NEW p \in Proc, Exit(p) PROVE RegisteredInv'
  BY <1>23 DEF Exit, connVars, ChildrenEnded
<1>24. ASSUME NEW q \in Proc, Crash(q) PROVE RegisteredInv'
  BY <1>24 DEF Crash
<1>25. ASSUME UNCHANGED vars PROVE RegisteredInv'
  BY <1>25 DEF vars, procVars, connVars
<1>26. QED
  BY <1>1, <1>2, <1>3, <1>4, <1>5, <1>6, <1>7, <1>8, <1>9, <1>10, <1>11, <1>12,
     <1>13, <1>14, <1>15, <1>16, <1>17, <1>18, <1>19, <1>20, <1>21, <1>22,
     <1>23, <1>24, <1>25
  DEF Next, Creation, StartOp, Client, Accept, Finish, Finalizer, Shutdown, Ended

(* When no port is given out twice, a serving actor is registered with its *)
(* creator, which has not ended, and will be terminated by its finalizer.  *)
THEOREM ServingActorsRegistered ==
  ASSUME PortReuse = FALSE
  PROVE  Spec => []ServingIsRegistered
<1>1. TypeInv /\ FamilyInv /\ RegisteredInv => ServingIsRegistered
  BY DEF TypeInv, TypeOK, FamilyInv, Ending, RegisteredInv, ServingIsRegistered, Gone, Children
<1>2. QED
  BY InitTypes, StepTypes, InitCalls, StepCalls, InitStop, StepStop, InitFamily, StepFamily,
     InitJoins, StepJoins, InitFinal, StepFinal, InitRegistered, StepRegistered, <1>1, PTL DEF Spec

(* Then an exiting process joins only actors that are on their way out:    *)
(* none of its children is left serving when its finalizer has finished.   *)
THEOREM ExitJoinsStopped ==
  ASSUME PortReuse = FALSE
  PROVE  Spec => []JoinsOnlyStopped
<1>1. TypeInv /\ FamilyInv /\ RegisteredInv => JoinsOnlyStopped
  <2> SUFFICES ASSUME TypeInv, FamilyInv, RegisteredInv, NEW p \in Proc, status[p] = "exiting",
                      todo[p] = {}, NEW c \in Children(p)
               PROVE  Gone(c)
    BY DEF JoinsOnlyStopped, Gone
  <2>1. making[p] = None /\ p \notin killed
    BY DEF TypeInv, TypeOK, FamilyInv, Creator, Ending
  <2>2. c \in Proc /\ c # None
    BY ActorsAssumption DEF Children
  <2>3. QED
    BY <2>1, <2>2 DEF RegisteredInv
<1>2. QED
  BY InitTypes, StepTypes, InitCalls, StepCalls, InitStop, StepStop, InitFamily, StepFamily,
     InitJoins, StepJoins, InitFinal, StepFinal, InitRegistered, StepRegistered, <1>1, PTL DEF Spec

-----------------------------------------------------------------------------
(* A process waits only for those it may reach: operations go to actors    *)
(* within reach, and a request whose connection ended was with its target. *)
WaitInv ==
  /\ \A o \in Op : pc[o] # "idle" => <<req[o].caller, req[o].target>> \in MayReach
  /\ \A o \in Op : pc[o] \in {"idle", "spawned"} => at[o] = None
  /\ \A o \in Op : pc[o] = "closed" => at[o] \in {None, req[o].target}

(* Nobody waits at the start.                                              *)
LEMMA InitWaits == Init => WaitInv
  BY DEF Init, WaitInv, Conn

(* Every step keeps it so.                                                 *)
LEMMA StepWaits == TypeInv /\ CallInv /\ StopInv /\ WaitInv /\ [Next]_vars => WaitInv'
<1> SUFFICES ASSUME TypeInv, CallInv, StopInv, WaitInv, [Next]_vars PROVE WaitInv'
  OBVIOUS
<1>0. Op \subseteq Conn /\ Proc \subseteq Conn
  BY DEF Conn
<1> USE ActorsAssumption, <1>0 DEF TypeInv, TypeOK, WaitInv
<1>1. ASSUME NEW p \in Proc, NEW c \in Proc, Create(p, c) PROVE WaitInv'
  BY <1>1 DEF Create, connVars
<1>2. ASSUME NEW p \in Proc, ConstructorOk(p) PROVE WaitInv'
  BY <1>2 DEF ConstructorOk, connVars
<1>3. ASSUME NEW p \in Proc, ConstructorFail(p) PROVE WaitInv'
  BY <1>3 DEF ConstructorFail, connVars
<1>4. ASSUME NEW p \in Proc, CreateReturn(p) PROVE WaitInv'
  BY <1>4 DEF CreateReturn, connVars
<1>5. ASSUME NEW p \in Proc, CreateRaise(p) PROVE WaitInv'
  BY <1>5 DEF CreateRaise, connVars
<1>6. ASSUME NEW p \in Proc, NEW o \in Op, NEW k \in {"call", "terminate"},
             NEW r \in known[p], Start(p, o, k, r) PROVE WaitInv'
  <2>1. PICK x \in Passable(p, r) \cup {None} :
         req' = [req EXCEPT ![o] = [kind |-> k, caller |-> p, target |-> r, ctx |-> cur[p],
                                    arg |-> x, late |-> r \in Terminated]]
    BY <1>6 DEF Start
  <2>2. req'[o].caller = p /\ req'[o].target = r /\ \A y \in Op \ {o} : req'[y] = req[y]
    BY <2>1
  <2>3. pc[o] = "idle" /\ <<p, r>> \in MayReach /\ pc' = [pc EXCEPT ![o] = "spawned"] /\ at' = at
    BY <1>6 DEF Start
  <2>4. QED
    BY <2>2, <2>3
<1>7. ASSUME NEW o \in Op, Connect(o) PROVE WaitInv'
  BY <1>7 DEF Connect, procVars
<1>8. ASSUME NEW o \in Op, ConnectRefused(o) PROVE WaitInv'
  BY <1>8 DEF ConnectRefused, procVars, Disconnect
<1>9. ASSUME NEW o \in Op, SerializeFails(o) PROVE WaitInv'
  BY <1>9 DEF SerializeFails, procVars
<1>10. ASSUME NEW o \in Op, TerminatePop(o) PROVE WaitInv'
  BY <1>10 DEF TerminatePop
<1>11. ASSUME NEW o \in Op, TerminateJoined(o) PROVE WaitInv'
  BY <1>11 DEF TerminateJoined, procVars
<1>12. ASSUME NEW q \in Proc, NEW o \in Conn, AcceptCall(q, o) PROVE WaitInv'
  BY <1>12 DEF AcceptCall, Queue
<1>13. ASSUME NEW q \in Proc, NEW o \in Conn, RejectCall(q, o) PROVE WaitInv'
  BY <1>13 DEF RejectCall, procVars, Queue
<1>14. ASSUME NEW q \in Proc, NEW o \in Conn, AcceptBroken(q, o) PROVE WaitInv'
  BY <1>14 DEF AcceptBroken, Queue
<1>15. ASSUME NEW q \in Proc, NEW o \in Conn, AcceptTerminate(q, o)
       PROVE  WaitInv'
  BY <1>15 DEF AcceptTerminate, Queue, Disconnect, StopInv
<1>16. ASSUME NEW q \in Proc, NEW how \in {"value", "raised"},
              NEW r \in known[q] \cup {None}, Respond(q, how, r) PROVE WaitInv'
  <2>1. cur[q] # None => cur[q] \in Conn /\ pc[cur[q]] = "served" /\ req[cur[q]].kind = "call"
    BY DEF CallInv, ServedByOne
  <2>3. QED
    BY <1>16, <2>1 DEF Respond, BodyDone
<1>17. ASSUME NEW q \in Proc, RespondToDead(q) PROVE WaitInv'
  <2>1. cur[q] # None => cur[q] \in Conn /\ pc[cur[q]] = "served" /\ req[cur[q]].kind = "call"
    BY DEF CallInv, ServedByOne
  <2>3. QED
    BY <1>17, <2>1 DEF RespondToDead, BodyDone
<1>18. ASSUME NEW q \in Proc, CloseListener(q) PROVE WaitInv'
  BY <1>18 DEF CloseListener, Queue, Disconnect, StopInv
<1>19. ASSUME MainExit PROVE WaitInv'
  BY <1>19 DEF MainExit, connVars
<1>20. ASSUME NEW p \in Proc, NEW c \in todo[p], FinalizerSend(p, c)
       PROVE  WaitInv'
  BY <1>20 DEF FinalizerSend, procVars
<1>21. ASSUME NEW p \in Proc, NEW c \in todo[p], FinalizerSkip(p, c)
       PROVE  WaitInv'
  BY <1>21 DEF FinalizerSkip, connVars
<1>22. ASSUME NEW p \in Proc, NEW c \in todo[p], FinalizerNext(p, c)
       PROVE  WaitInv'
  BY <1>22 DEF FinalizerNext
<1>23. ASSUME NEW p \in Proc, Exit(p) PROVE WaitInv'
  BY <1>23 DEF Exit, connVars
<1>24. ASSUME NEW q \in Proc, Crash(q) PROVE WaitInv'
  <2>1. cur[q] # None => cur[q] \in Conn /\ pc[cur[q]] = "served" /\ req[cur[q]].kind = "call"
    BY DEF CallInv, ServedByOne
  <2>3. QED
    BY <1>24, <2>1 DEF Crash, Disconnect, Queue, StopInv
<1>25. ASSUME UNCHANGED vars PROVE WaitInv'
  BY <1>25 DEF vars, procVars, connVars
<1>26. QED
  BY <1>1, <1>2, <1>3, <1>4, <1>5, <1>6, <1>7, <1>8, <1>9, <1>10, <1>11, <1>12,
     <1>13, <1>14, <1>15, <1>16, <1>17, <1>18, <1>19, <1>20, <1>21, <1>22,
     <1>23, <1>24, <1>25
  DEF Next, Creation, StartOp, Client, Accept, Finish, Finalizer, Shutdown, Ended

(* What a process waits for is within its reach.                           *)
LEMMA WaitsWithinReach ==
  ASSUME TypeInv, StopInv, FamilyInv, JoinInv, WaitInv, NEW p \in Proc, NEW q \in Proc,
         q \in WaitsFor(p)
  PROVE  <<p, q>> \in MayReach
<1>0. Op \subseteq Conn
  BY DEF Conn
<1> USE ActorsAssumption, <1>0 DEF TypeInv, TypeOK
<1>1. CASE q = making[p] /\ q # None
  BY <1>1 DEF FamilyInv, Creator, Parentage
<1>2. ASSUME NEW o \in InThread(p), q = at[o], q # None PROVE <<p, q>> \in MayReach
  <2>1. o \in Op /\ req[o].caller = p /\ pc[o] \in {"queued", "served", "closed", "joining"}
    BY DEF InThread
  <2>2. CASE pc[o] \in {"queued", "served", "closed"}
    BY <1>2, <2>1, <2>2 DEF StopInv, WaitInv
  <2>3. CASE pc[o] = "joining"
    BY <1>2, <2>1, <2>3 DEF JoinInv, FamilyInv, Parentage
  <2>4. QED
    BY <2>1, <2>2, <2>3
<1>3. ASSUME NEW o \in OpsOf(p), pc[o] = "spawned", q \in ListenersAt(addr[req[o].target])
      PROVE  <<p, q>> \in MayReach
  <2>1. q = req[o].target
    BY <1>3 DEF OpsOf, ListenersAt, ReferencesHaveAddresses, StopInv
  <2>2. QED
    BY <1>3, <2>1 DEF OpsOf, WaitInv
<1>4. CASE q \in Children(p)
  BY <1>4 DEF Children, FamilyInv, Parentage
<1>5. \/ q = making[p] /\ q # None
      \/ \E o \in InThread(p) : q = at[o] /\ q # None
      \/ \E o \in OpsOf(p) : pc[o] = "spawned" /\ q \in ListenersAt(addr[req[o].target])
      \/ q \in Children(p)
  BY q \in WaitsFor(p) DEF WaitsFor
<1>6. QED
  BY <1>1, <1>2, <1>3, <1>4, <1>5

(* When user code reaches only downwards (every set of processes has one   *)
(* that reaches none of the set) and no port is given out twice, processes *)
(* never wait for one another.                                             *)
THEOREM NobodyWaitsInCircles ==
  ASSUME PortReuse = FALSE,
         \A S \in SUBSET Proc : S # {} => \E p \in S : \A q \in S : <<p, q>> \notin MayReach
  PROVE  Spec => []NoWaitCycle
<1>1. TypeInv /\ StopInv /\ FamilyInv /\ JoinInv /\ WaitInv => NoWaitCycle
  <2> SUFFICES ASSUME TypeInv, StopInv, FamilyInv, JoinInv, WaitInv, NEW S \in SUBSET Proc, S # {},
                      \A p \in S : WaitsFor(p) \cap S # {}
               PROVE  FALSE
    BY DEF NoWaitCycle, WaitCycle
  <2>1. PICK p \in S : \A q \in S : <<p, q>> \notin MayReach
    OBVIOUS
  <2>2. PICK q \in S : q \in WaitsFor(p)
    OBVIOUS
  <2>3. QED
    BY <2>1, <2>2, WaitsWithinReach
<1>2. QED
  BY InitTypes, StepTypes, InitCalls, StepCalls, InitStop, StepStop, InitFamily, StepFamily,
     InitJoins, StepJoins, InitWaits, StepWaits, <1>1, PTL DEF Spec

-----------------------------------------------------------------------------
(* The refinement: what callers see of processes, connections and ports is *)
(* a step of ActorRpc or nothing.                                          *)

(* While nobody is killed, an operation that has not ended has a caller    *)
(* that is still in the method (or in Main) that started it, and an        *)
(* accepted call is the one its actor is running.                          *)
ServeInv ==
  /\ killed = {}
  /\ \A o \in Op : pc[o] = "served" =>
       at[o] \in Proc /\ status[at[o]] = "busy" /\ cur[at[o]] = o
  /\ \A o \in Op : pc[o] \notin {"idle", "done"} =>
       /\ status[req[o].caller] = "busy"
       /\ req[o].ctx = cur[req[o].caller]
       /\ pc[o] # "lost"

(* Main is no actor: it never listens.                                     *)
MainInv ==
  /\ status[Main] \in {"busy", "exiting", "dead"}
  /\ addr[Main] = None /\ cur[Main] = None
  /\ \A q \in Proc \ {Main} : status[q] \in {"serving", "busy", "closing"} => addr[q] \in Port

(* Nothing runs but Main at the start.                                     *)
LEMMA InitServe == Init => ServeInv /\ MainInv
  BY ActorsAssumption DEF Init, ServeInv, MainInv, Conn

(* Every step keeps Main apart.                                            *)
LEMMA StepMain == TypeInv /\ MainInv /\ [Next]_vars => MainInv'
<1> SUFFICES ASSUME TypeInv, MainInv, [Next]_vars PROVE MainInv'
  OBVIOUS
<1>0. Op \subseteq Conn /\ Proc \subseteq Conn
  BY DEF Conn
<1> USE ActorsAssumption, <1>0 DEF TypeInv, TypeOK, MainInv
<1>1. ASSUME NEW p \in Proc, NEW c \in Proc, Create(p, c) PROVE MainInv'
  BY <1>1 DEF Create, connVars
<1>2. ASSUME NEW p \in Proc, ConstructorOk(p) PROVE MainInv'
  BY <1>2 DEF ConstructorOk, connVars
<1>3. ASSUME NEW p \in Proc, ConstructorFail(p) PROVE MainInv'
  BY <1>3 DEF ConstructorFail, connVars
<1>4. ASSUME NEW p \in Proc, CreateReturn(p) PROVE MainInv'
  BY <1>4 DEF CreateReturn, connVars
<1>5. ASSUME NEW p \in Proc, CreateRaise(p) PROVE MainInv'
  BY <1>5 DEF CreateRaise, connVars
<1>6. ASSUME NEW p \in Proc, NEW o \in Op, NEW k \in {"call", "terminate"},
             NEW r \in known[p], Start(p, o, k, r) PROVE MainInv'
  BY <1>6 DEF Start, procVars
<1>7. ASSUME NEW o \in Op, Connect(o) PROVE MainInv'
  BY <1>7 DEF Connect, procVars
<1>8. ASSUME NEW o \in Op, ConnectRefused(o) PROVE MainInv'
  BY <1>8 DEF ConnectRefused, procVars
<1>9. ASSUME NEW o \in Op, SerializeFails(o) PROVE MainInv'
  BY <1>9 DEF SerializeFails, procVars
<1>10. ASSUME NEW o \in Op, TerminatePop(o) PROVE MainInv'
  BY <1>10 DEF TerminatePop
<1>11. ASSUME NEW o \in Op, TerminateJoined(o) PROVE MainInv'
  BY <1>11 DEF TerminateJoined, procVars
<1>12. ASSUME NEW q \in Proc, NEW o \in Conn, AcceptCall(q, o) PROVE MainInv'
  BY <1>12 DEF AcceptCall, Accepting
<1>13. ASSUME NEW q \in Proc, NEW o \in Conn, RejectCall(q, o) PROVE MainInv'
  BY <1>13 DEF RejectCall, procVars
<1>14. ASSUME NEW q \in Proc, NEW o \in Conn, AcceptBroken(q, o) PROVE MainInv'
  BY <1>14 DEF AcceptBroken, Accepting
<1>15. ASSUME NEW q \in Proc, NEW o \in Conn, AcceptTerminate(q, o)
       PROVE  MainInv'
  BY <1>15 DEF AcceptTerminate, Accepting
<1>16. ASSUME NEW q \in Proc, NEW how \in {"value", "raised"},
              NEW r \in known[q] \cup {None}, Respond(q, how, r) PROVE MainInv'
  BY <1>16 DEF Respond, BodyDone, Running
<1>17. ASSUME NEW q \in Proc, RespondToDead(q) PROVE MainInv'
  BY <1>17 DEF RespondToDead, BodyDone, Running
<1>18. ASSUME NEW q \in Proc, CloseListener(q) PROVE MainInv'
  BY <1>18 DEF CloseListener
<1>19. ASSUME MainExit PROVE MainInv'
  BY <1>19 DEF MainExit, connVars, Running
<1>20. ASSUME NEW p \in Proc, NEW c \in todo[p], FinalizerSend(p, c)
       PROVE  MainInv'
  BY <1>20 DEF FinalizerSend, procVars
<1>21. ASSUME NEW p \in Proc, NEW c \in todo[p], FinalizerSkip(p, c)
       PROVE  MainInv'
  BY <1>21 DEF FinalizerSkip, connVars
<1>22. ASSUME NEW p \in Proc, NEW c \in todo[p], FinalizerNext(p, c)
       PROVE  MainInv'
  BY <1>22 DEF FinalizerNext
<1>23. ASSUME NEW p \in Proc, Exit(p) PROVE MainInv'
  BY <1>23 DEF Exit, connVars
<1>24. ASSUME NEW q \in Proc, Crash(q) PROVE MainInv'
  BY <1>24 DEF Crash
<1>25. ASSUME UNCHANGED vars PROVE MainInv'
  BY <1>25 DEF vars, procVars, connVars
<1>26. QED
  BY <1>1, <1>2, <1>3, <1>4, <1>5, <1>6, <1>7, <1>8, <1>9, <1>10, <1>11, <1>12,
     <1>13, <1>14, <1>15, <1>16, <1>17, <1>18, <1>19, <1>20, <1>21, <1>22,
     <1>23, <1>24, <1>25
  DEF Next, Creation, StartOp, Client, Accept, Finish, Finalizer, Shutdown, Ended

(* Without kills every step keeps the callers in the method that called.   *)
LEMMA StepServe ==
  /\ MaxCrash = 0 /\ TypeInv /\ CallInv /\ FamilyInv /\ FinalInv /\ MainInv /\ ServeInv /\ [Next]_vars
  => ServeInv'
<1> SUFFICES ASSUME MaxCrash = 0, TypeInv, CallInv, FamilyInv, FinalInv, MainInv, ServeInv, [Next]_vars
             PROVE  ServeInv'
  OBVIOUS
<1>0. Op \subseteq Conn /\ Proc \subseteq Conn
  BY DEF Conn
<1> USE ActorsAssumption, <1>0 DEF TypeInv, TypeOK, ServeInv
<1>1. ASSUME NEW p \in Proc, NEW c \in Proc, Create(p, c) PROVE ServeInv'
  BY <1>1 DEF Create, connVars, ReferencesHaveAddresses
<1>2. ASSUME NEW p \in Proc, ConstructorOk(p) PROVE ServeInv'
  BY <1>2 DEF ConstructorOk, connVars, ReferencesHaveAddresses
<1>3. ASSUME NEW p \in Proc, ConstructorFail(p) PROVE ServeInv'
  BY <1>3 DEF ConstructorFail, connVars, ReferencesHaveAddresses
<1>4. ASSUME NEW p \in Proc, CreateReturn(p) PROVE ServeInv'
  BY <1>4 DEF CreateReturn, connVars
<1>5. ASSUME NEW p \in Proc, CreateRaise(p) PROVE ServeInv'
  BY <1>5 DEF CreateRaise, connVars
<1>6. ASSUME NEW p \in Proc, NEW o \in Op, NEW k \in {"call", "terminate"},
             NEW r \in known[p], Start(p, o, k, r) PROVE ServeInv'
  <2>1. PICK x \in Passable(p, r) \cup {None} :
         req' = [req EXCEPT ![o] = [kind |-> k, caller |-> p, target |-> r, ctx |-> cur[p],
                                    arg |-> x, late |-> r \in Terminated]]
    BY <1>6 DEF Start
  <2>2. req'[o].caller = p /\ req'[o].ctx = cur[p] /\ \A y \in Op \ {o} : req'[y] = req[y]
    BY <2>1
  <2>3. status[p] = "busy" /\ pc' = [pc EXCEPT ![o] = "spawned"] /\ UNCHANGED <<status, cur, at, killed>>
    BY <1>6 DEF Start, Running, procVars
  <2>4. QED
    BY <2>2, <2>3
<1>7. ASSUME NEW o \in Op, Connect(o) PROVE ServeInv'
  BY <1>7 DEF Connect, procVars
<1>8. ASSUME NEW o \in Op, ConnectRefused(o) PROVE ServeInv'
  BY <1>8 DEF ConnectRefused, procVars, Disconnect
<1>9. ASSUME NEW o \in Op, SerializeFails(o) PROVE ServeInv'
  BY <1>9 DEF SerializeFails, procVars
<1>10. ASSUME NEW o \in Op, TerminatePop(o) PROVE ServeInv'
  <2>1. /\ pc[o] = "closed" /\ pc'[o] \in {"done", "joining"}
        /\ \A x \in Op \ {o} : pc'[x] = pc[x] /\ at'[x] = at[x]
        /\ UNCHANGED <<status, cur, req, killed>>
    BY <1>10 DEF TerminatePop
  <2>2. \A x \in Op : pc'[x] = "served" => pc[x] = "served" /\ at'[x] = at[x]
    BY <2>1
  <2>3. \A x \in Op : pc'[x] \notin {"idle", "done"} => pc[x] \notin {"idle", "done"} /\ pc'[x] # "lost"
    BY <2>1
  <2>4. QED
    BY <2>1, <2>2, <2>3
<1>11. ASSUME NEW o \in Op, TerminateJoined(o) PROVE ServeInv'
  BY <1>11 DEF TerminateJoined, procVars
<1>12. ASSUME NEW q \in Proc, NEW o \in Conn, AcceptCall(q, o) PROVE ServeInv'
  <2>1. /\ status[q] = "serving" /\ status' = [status EXCEPT ![q] = "busy"]
        /\ pc[o] = "queued" /\ at[o] = q /\ req[o].kind = "call"
        /\ cur' = [cur EXCEPT ![q] = o] /\ pc' = [pc EXCEPT ![o] = "served"]
        /\ UNCHANGED <<req, at, killed>>
    BY <1>12 DEF AcceptCall, Queue, Accepting
  <2>2. \A x \in Op : pc[x] = "served" => at[x] # q
    BY <2>1
  <2>3. \A x \in Op : pc[x] \notin {"idle", "done"} => req[x].caller # q
    BY <2>1
  <2>4. QED
    BY <2>1, <2>2, <2>3 DEF ReferencesHaveAddresses
<1>13. ASSUME NEW q \in Proc, NEW o \in Conn, RejectCall(q, o) PROVE ServeInv'
  BY <1>13 DEF RejectCall, procVars, ReferencesHaveAddresses
<1>14. ASSUME NEW q \in Proc, NEW o \in Conn, AcceptBroken(q, o)
       PROVE  ServeInv'
  <2>1. /\ status[q] = "serving" /\ pc[o] = "queued" /\ status[req[o].caller] = "dead"
        /\ \A x \in Proc \ {q} : status'[x] = status[x]
        /\ pc' = [pc EXCEPT ![o] = "lost"] /\ UNCHANGED <<cur, req, at, killed>>
    BY <1>14 DEF AcceptBroken, Queue, Accepting
  <2>2. o \notin Op
    BY <2>1
  <2>3. \A x \in Op : pc'[x] = pc[x]
    BY <2>1, <2>2
  <2>4. QED
    BY <2>1, <2>3 DEF ReferencesHaveAddresses
<1>15. ASSUME NEW q \in Proc, NEW o \in Conn, AcceptTerminate(q, o)
       PROVE  ServeInv'
  <2>1. \A x \in Proc : status[x] = "busy" => status'[x] = "busy" /\ cur'[x] = cur[x]
    BY <1>15 DEF AcceptTerminate, Accepting
  <2>2. \A x \in Op : pc'[x] = pc[x] \/ (pc'[x] \in {"done", "closed"} /\ pc[x] = "queued")
    BY <1>15 DEF AcceptTerminate, Queue, Disconnect
  <2>3. UNCHANGED <<req, at, killed>>
    BY <1>15 DEF AcceptTerminate
  <2>4. \A x \in Op : pc'[x] = "served" => pc[x] = "served"
    BY <2>2
  <2>5. \A x \in Op : pc'[x] \notin {"idle", "done"} =>
          pc[x] \notin {"idle", "done"} /\ pc'[x] # "lost"
    BY <2>2
  <2>6. \A x \in Op : pc[x] # "idle" => req[x].caller \in Proc
    BY DEF ReferencesHaveAddresses
  <2>7. QED
    BY <2>1, <2>3, <2>4, <2>5, <2>6
<1>16. ASSUME NEW q \in Proc, NEW how \in {"value", "raised"},
              NEW r \in known[q] \cup {None}, Respond(q, how, r)
       PROVE  ServeInv'
  <2>1. cur[q] # None => cur[q] \in Op /\ pc[cur[q]] = "served" /\ at[cur[q]] = q
    <3>1. ASSUME cur[q] # None PROVE cur[q] \in Op /\ pc[cur[q]] = "served" /\ at[cur[q]] = q
      <4>1. cur[q] \in Conn /\ pc[cur[q]] = "served" /\ at[cur[q]] = q
        BY <3>1 DEF ServedByOne
      <4>2. req[cur[q]].kind = "call"
        BY <4>1 DEF CallInv
      <4>3. cur[q] \notin Proc
        BY <4>1, <4>2 DEF FinalInv
      <4>4. QED
        BY <4>1, <4>3 DEF Conn
    <3>2. QED
      BY <3>1
  <2>2. /\ cur[q] \in Op /\ status[q] = "busy" /\ status' = [status EXCEPT ![q] = "serving"]
        /\ cur' = [cur EXCEPT ![q] = None] /\ pc' = [pc EXCEPT ![cur[q]] = "done"]
        /\ UNCHANGED <<req, at, killed>>
    BY <1>16, <2>1 DEF Respond, BodyDone, Running
  <2>7. \A x \in Op : req[x].caller = q /\ req[x].ctx = cur[q] => pc[x] = "done"
    BY <1>16 DEF Respond, BodyDone
  <2>3. \A x \in Op : req[x].caller = q => pc[x] \in {"idle", "done"}
    BY <2>7
  <2>4. \A x \in Op : pc'[x] = "served" => pc[x] = "served" /\ at[x] # q
    BY <2>1, <2>2
  <2>5. \A x \in Op : pc'[x] \notin {"idle", "done"} => pc'[x] = pc[x] /\ req[x].caller # q
    BY <2>2, <2>3
  <2>6. QED
    BY <2>2, <2>4, <2>5 DEF ReferencesHaveAddresses
<1>17. ASSUME NEW q \in Proc, RespondToDead(q) PROVE ServeInv'
  <2>1. cur[q] # None => cur[q] \in Op /\ pc[cur[q]] = "served" /\ at[cur[q]] = q
    <3>1. ASSUME cur[q] # None PROVE cur[q] \in Op /\ pc[cur[q]] = "served" /\ at[cur[q]] = q
      <4>1. cur[q] \in Conn /\ pc[cur[q]] = "served" /\ at[cur[q]] = q
        BY <3>1 DEF ServedByOne
      <4>2. req[cur[q]].kind = "call"
        BY <4>1 DEF CallInv
      <4>3. cur[q] \notin Proc
        BY <4>1, <4>2 DEF FinalInv
      <4>4. QED
        BY <4>1, <4>3 DEF Conn
    <3>2. QED
      BY <3>1
  <2>2. QED
    BY <1>17, <2>1 DEF RespondToDead, BodyDone
<1>18. ASSUME NEW q \in Proc, CloseListener(q) PROVE ServeInv'
  <2>1. \A x \in Proc : status[x] = "busy" => status'[x] = "busy" /\ cur'[x] = cur[x]
    BY <1>18 DEF CloseListener
  <2>2. \A x \in Op : pc'[x] = pc[x] \/ (pc'[x] \in {"done", "closed"} /\ pc[x] = "queued")
    BY <1>18 DEF CloseListener, Queue, Disconnect
  <2>3. UNCHANGED <<req, at, killed>>
    BY <1>18 DEF CloseListener
  <2>4. \A x \in Op : pc'[x] = "served" => pc[x] = "served"
    BY <2>2
  <2>5. \A x \in Op : pc'[x] \notin {"idle", "done"} =>
          pc[x] \notin {"idle", "done"} /\ pc'[x] # "lost" /\ req[x].caller \in Proc
    BY <2>2 DEF ReferencesHaveAddresses
  <2>6. QED
    BY <2>1, <2>3, <2>4, <2>5
<1>19. ASSUME MainExit PROVE ServeInv'
  <2>1. status' = [status EXCEPT ![Main] = "exiting"] /\ UNCHANGED <<cur, connVars, killed>>
    BY <1>19 DEF MainExit
  <2>2. \A x \in Op : pc[x] = "served" => at[x] # Main
    BY DEF MainInv
  <2>3. \A x \in Op : pc[x] \notin {"idle", "done"} => req[x].caller # Main
    BY <1>19 DEF MainExit, OpsOf
  <2>4. QED
    BY <2>1, <2>2, <2>3 DEF connVars, ReferencesHaveAddresses
<1>20. ASSUME NEW p \in Proc, NEW c \in todo[p], FinalizerSend(p, c)
       PROVE  ServeInv'
  BY <1>20 DEF FinalizerSend, procVars
<1>21. ASSUME NEW p \in Proc, NEW c \in todo[p], FinalizerSkip(p, c)
       PROVE  ServeInv'
  BY <1>21 DEF FinalizerSkip, connVars
<1>22. ASSUME NEW p \in Proc, NEW c \in todo[p], FinalizerNext(p, c)
       PROVE  ServeInv'
  BY <1>22 DEF FinalizerNext
<1>23. ASSUME NEW p \in Proc, Exit(p) PROVE ServeInv'
  BY <1>23 DEF Exit, connVars, ReferencesHaveAddresses
<1>24. ASSUME NEW q \in Proc, Crash(q) PROVE ServeInv'
  BY <1>24, FS_EmptySet DEF Crash
<1>25. ASSUME UNCHANGED vars PROVE ServeInv'
  BY <1>25 DEF vars, procVars, connVars
<1>26. QED
  BY <1>1, <1>2, <1>3, <1>4, <1>5, <1>6, <1>7, <1>8, <1>9, <1>10, <1>11, <1>12,
     <1>13, <1>14, <1>15, <1>16, <1>17, <1>18, <1>19, <1>20, <1>21, <1>22,
     <1>23, <1>24, <1>25
  DEF Next, Creation, StartOp, Client, Accept, Finish, Finalizer, Shutdown, Ended

-----------------------------------------------------------------------------
(* A process that has an address is an actor of the abstract view.         *)
LEMMA TargetsAreActors ==
  ASSUME TypeInv, MainInv, NEW q \in Proc, addr[q] \in Port
  PROVE  /\ q \in Proc \ {Main}
         /\ Life(q) = IF status[q] \in {"serving", "busy"} THEN "alive" ELSE "dead"
  BY ActorsAssumption DEF MainInv, Life

(* What a step leaves alone of the abstract view: the actors, the          *)
(* operations outside S, and what the operations were started for.         *)
LifeKept == \A q \in Proc \ {Main} : Life(q)' = Life(q)
PhaseKept(S) == \A o \in Op \ S : Phase(o)' = Phase(o)
TargetKept == \A o \in Op : req'[o].target = req[o].target

(* A step that leaves everything alone.                                    *)
LEMMA Unseen ==
  ASSUME LifeKept, PhaseKept({}), TargetKept
  PROVE  UNCHANGED Rpc!rpcVars
  BY DEF Rpc!rpcVars, LifeKept, PhaseKept, TargetKept

(* An actor appears.                                                       *)
LEMMA SeenBirth ==
  ASSUME NEW c \in Proc \ {Main}, Life(c) = "unborn", Life(c)' = "alive",
         \A q \in Proc \ {Main, c} : Life(q)' = Life(q), PhaseKept({}), TargetKept
  PROVE  Rpc!Birth(c)
  BY DEF Rpc!Birth, PhaseKept, TargetKept

(* An actor without a running call stops accepting calls.                  *)
LEMMA SeenStop ==
  ASSUME NEW q \in Proc \ {Main}, Life(q) = "alive", Life(q)' = "dead",
         \A x \in Proc \ {Main, q} : Life(x)' = Life(x), PhaseKept({}), TargetKept,
         \A o \in Op : req[o].target = q => Phase(o) # "running"
  PROVE  Rpc!Stop(q)
<1>1. Rpc!RunningOn(q) = {}
  BY DEF Rpc!RunningOn
<1>2. QED
  BY <1>1 DEF Rpc!Stop, PhaseKept, TargetKept

(* An operation is started.                                                *)
LEMMA SeenInvoke ==
  ASSUME NEW o \in Op, NEW q \in Proc \ {Main}, Phase(o) = "idle", Life(q) # "unborn",
         Phase(o)' \in {"pending", "stopping"}, req'[o].target = q,
         \A x \in Op \ {o} : req'[x].target = req[x].target, LifeKept, PhaseKept({o})
  PROVE  Rpc!Invoke(o, q)
  BY DEF Rpc!Invoke, LifeKept, PhaseKept

(* A call begins on an actor that runs no other.                           *)
LEMMA SeenBegin ==
  ASSUME NEW o \in Op, req[o].target \in Proc \ {Main}, Phase(o) = "pending",
         Life(req[o].target) = "alive", Phase(o)' = "running",
         \A x \in Op : req[x].target = req[o].target => Phase(x) # "running",
         LifeKept, PhaseKept({o}), TargetKept
  PROVE  Rpc!Begin(o)
<1>1. Rpc!RunningOn(req[o].target) = {}
  BY DEF Rpc!RunningOn
<1>2. QED
  BY <1>1 DEF Rpc!Begin, LifeKept, PhaseKept, TargetKept

(* A call that cannot be transported fails.                                *)
LEMMA SeenRefuse ==
  ASSUME NEW o \in Op, Phase(o) = "pending", Phase(o)' = "raised", LifeKept, PhaseKept({o}), TargetKept
  PROVE  Rpc!Refuse(o)
  BY DEF Rpc!Refuse, LifeKept, PhaseKept, TargetKept

(* A call ends.                                                            *)
LEMMA SeenEnd ==
  ASSUME NEW o \in Op, Phase(o) = "running", Phase(o)' \in {"value", "raised"},
         LifeKept, PhaseKept({o}), TargetKept
  PROVE  Rpc!End(o)
  BY DEF Rpc!End, LifeKept, PhaseKept, TargetKept

(* A termination request returns after its actor stopped.                  *)
LEMMA SeenStopped ==
  ASSUME NEW o \in Op, req[o].target \in Proc \ {Main}, Phase(o) = "stopping",
         Life(req[o].target) = "dead", Phase(o)' = "stopped", LifeKept, PhaseKept({o}), TargetKept
  PROVE  Rpc!Stopped(o)
  BY DEF Rpc!Stopped, LifeKept, PhaseKept, TargetKept

(* Calls to actors that are gone fail.                                     *)
LEMMA SeenFail ==
  ASSUME NEW S \in SUBSET Op, LifeKept, PhaseKept(S), TargetKept,
         \A o \in S : /\ Phase(o) = "pending" /\ Phase(o)' = "died"
                      /\ req[o].target \in Proc \ {Main} /\ Life(req[o].target) = "dead"
  PROVE  Rpc!Fail(S)
  BY DEF Rpc!Fail, LifeKept, PhaseKept, TargetKept

-----------------------------------------------------------------------------
(* The initial states map to the initial state.                            *)
LEMMA InitRpc == Init => Rpc!RpcInit
  BY ActorsAssumption DEF Init, Rpc!RpcInit, Life, Phase, NoRequest, Conn

(* Only an accepted call is running, and its actor is busy with it.        *)
LEMMA RunningIsServed ==
  ASSUME TypeInv, StopInv, ServeInv, NEW o \in Op, Phase(o) = "running"
  PROVE  pc[o] = "served" /\ status[req[o].target] = "busy"
<1>1. reply[o] # "running"
  BY DEF TypeInv, TypeOK, Reply, Conn
<1>2. pc[o] = "served"
  BY <1>1 DEF Phase
<1>3. QED
  BY <1>2 DEF StopInv, ServeInv

(* A connection that carries a call was opened by an operation.            *)
LEMMA CallsAreOps ==
  ASSUME FinalInv, NEW o \in Conn, pc[o] # "idle", req[o].kind = "call"
  PROVE  o \in Op
  BY DEF FinalInv, Conn

(* A started operation is for an actor.                                    *)
LEMMA Targets ==
  ASSUME TypeInv, MainInv, NEW o \in Op, pc[o] # "idle"
  PROVE  /\ req[o].target \in Proc \ {Main} /\ addr[req[o].target] \in Port
         /\ Life(req[o].target) =
              IF status[req[o].target] \in {"serving", "busy"} THEN "alive" ELSE "dead"
  BY TargetsAreActors DEF TypeInv, ReferencesHaveAddresses

(* Every step maps to a step of ActorRpc or to none.                       *)
LEMMA StepRpc ==
  /\ PortReuse = FALSE /\ MaxCrash = 0 /\ TypeInv /\ CallInv /\ StopInv /\ FamilyInv /\ JoinInv
  /\ FinalInv /\ MainInv /\ ServeInv /\ [Next]_vars
  => [Rpc!RpcNext]_(Rpc!rpcVars)
<1> SUFFICES ASSUME PortReuse = FALSE, MaxCrash = 0, TypeInv, CallInv, StopInv, FamilyInv, JoinInv,
                    FinalInv, MainInv, ServeInv, [Next]_vars
             PROVE  [Rpc!RpcNext]_(Rpc!rpcVars)
  OBVIOUS
<1>0. Op \subseteq Conn /\ Proc \subseteq Conn
  BY DEF Conn
<1> DEFINE Seen == [Rpc!RpcNext]_(Rpc!rpcVars)
<1>a. ASSUME LifeKept, PhaseKept({}), TargetKept PROVE Seen
  BY <1>a, Unseen
<1>b. ASSUME NEW q \in Proc \ {Main}, Rpc!Birth(q) \/ Rpc!Stop(q) PROVE Seen
  BY <1>b DEF Rpc!RpcNext
<1>c. ASSUME NEW q \in Proc \ {Main}, NEW o \in Op, Rpc!Invoke(o, q) PROVE Seen
  BY <1>c DEF Rpc!RpcNext
<1>d. ASSUME NEW o \in Op, Rpc!Begin(o) \/ Rpc!Refuse(o) \/ Rpc!End(o) \/ Rpc!Stopped(o) PROVE Seen
  BY <1>d DEF Rpc!RpcNext
<1>e. ASSUME NEW S \in SUBSET Op, Rpc!Fail(S) PROVE Seen
  BY <1>e DEF Rpc!RpcNext
<1> HIDE DEF Seen
<1> USE ActorsAssumption, <1>0 DEF TypeInv, TypeOK
<1>1. ASSUME NEW p \in Proc, NEW c \in Proc, Create(p, c) PROVE Seen
  <2>1. addr' = addr /\ addr[c] = None
    BY <1>1 DEF Create, FamilyInv, Newborn
  <2>2. LifeKept
    BY <1>1, <2>1 DEF Create, LifeKept, Life
  <2>3. PhaseKept({}) /\ TargetKept
    BY <1>1 DEF Create, connVars, PhaseKept, TargetKept, Phase
  <2>4. QED
    BY <1>a, <2>2, <2>3
<1>2. ASSUME NEW p \in Proc, ConstructorOk(p) PROVE Seen
  <2>1. p # Main /\ addr[p] = None
    BY <1>2 DEF ConstructorOk, MainInv, FamilyInv, Newborn
  <2>2. PICK a \in Port : addr' = [addr EXCEPT ![p] = a]
    BY <1>2 DEF ConstructorOk
  <2>3. status' = [status EXCEPT ![p] = "serving"]
    BY <1>2 DEF ConstructorOk
  <2>4. Life(p) = "unborn" /\ Life(p)' = "alive"
    BY <2>1, <2>2, <2>3 DEF Life
  <2>5. \A x \in Proc \ {Main, p} : Life(x)' = Life(x)
    BY <2>2, <2>3 DEF Life
  <2>6. PhaseKept({}) /\ TargetKept
    BY <1>2 DEF ConstructorOk, connVars, PhaseKept, TargetKept, Phase
  <2>7. Rpc!Birth(p)
    BY <2>1, <2>4, <2>5, <2>6, SeenBirth
  <2>8. QED
    BY <1>b, <2>1, <2>7
<1>3. ASSUME NEW p \in Proc, ConstructorFail(p) PROVE Seen
  <2>1. addr' = addr /\ addr[p] = None
    BY <1>3 DEF ConstructorFail, FamilyInv, Newborn
  <2>2. LifeKept
    BY <1>3, <2>1 DEF ConstructorFail, LifeKept, Life
  <2>3. PhaseKept({}) /\ TargetKept
    BY <1>3 DEF ConstructorFail, connVars, PhaseKept, TargetKept, Phase
  <2>4. QED
    BY <1>a, <2>2, <2>3
<1>4. ASSUME NEW p \in Proc, CreateReturn(p) PROVE Seen
  <2>1. LifeKept
    BY <1>4 DEF CreateReturn, connVars, LifeKept, Life
  <2>2. PhaseKept({}) /\ TargetKept
    BY <1>4 DEF CreateReturn, connVars, PhaseKept, TargetKept, Phase
  <2>3. QED
    BY <1>a, <2>1, <2>2
<1>5. ASSUME NEW p \in Proc, CreateRaise(p) PROVE Seen
  <2>1. LifeKept
    BY <1>5 DEF CreateRaise, connVars, LifeKept, Life
  <2>2. PhaseKept({}) /\ TargetKept
    BY <1>5 DEF CreateRaise, connVars, PhaseKept, TargetKept, Phase
  <2>3. QED
    BY <1>a, <2>1, <2>2
<1>6. ASSUME NEW p \in Proc, NEW o \in Op, NEW k \in {"call", "terminate"},
             NEW r \in known[p], Start(p, o, k, r) PROVE Seen
  <2>1. PICK x \in Passable(p, r) \cup {None} :
         req' = [req EXCEPT ![o] = [kind |-> k, caller |-> p, target |-> r, ctx |-> cur[p],
                                    arg |-> x, late |-> r \in Terminated]]
    BY <1>6 DEF Start
  <2>2. pc[o] = "idle" /\ pc' = [pc EXCEPT ![o] = "spawned"] /\ r \in Proc /\ addr[r] \in Port
    BY <1>6 DEF Start, ReferencesHaveAddresses
  <2>3. r \in Proc \ {Main} /\ Life(r) # "unborn"
    BY <2>2, TargetsAreActors
  <2>4. Phase(o) = "idle" /\ Phase(o)' \in {"pending", "stopping"} /\ req'[o].target = r
    BY <2>1, <2>2 DEF Phase
  <2>5. LifeKept /\ PhaseKept({o}) /\ \A y \in Op \ {o} : req'[y].target = req[y].target
    BY <1>6, <2>1, <2>2 DEF Start, procVars, LifeKept, Life, PhaseKept, Phase
  <2>6. Rpc!Invoke(o, r)
    BY <2>3, <2>4, <2>5, SeenInvoke
  <2>7. QED
    BY <1>c, <2>3, <2>6
<1>7. ASSUME NEW o \in Op, Connect(o) PROVE Seen
  <2>1. pc[o] = "spawned" /\ pc' = [pc EXCEPT ![o] = "queued"]
    BY <1>7 DEF Connect
  <2>2. LifeKept
    BY <1>7 DEF Connect, procVars, LifeKept, Life
  <2>3. PhaseKept({}) /\ TargetKept
    BY <1>7, <2>1 DEF Connect, PhaseKept, TargetKept, Phase
  <2>4. QED
    BY <1>a, <2>2, <2>3
<1>8. ASSUME NEW o \in Op, ConnectRefused(o) PROVE Seen
  <2>1. /\ pc[o] = "spawned" /\ ListenersAt(addr[req[o].target]) = {}
        /\ pc' = [pc EXCEPT ![o] = IF req[o].kind = "call" THEN "done" ELSE "closed"]
        /\ reply' = [reply EXCEPT ![o] = IF req[o].kind = "call" THEN "died" ELSE reply[o]]
        /\ req' = req
    BY <1>8 DEF ConnectRefused, Disconnect
  <2>2. LifeKept /\ TargetKept
    BY <1>8 DEF ConnectRefused, procVars, LifeKept, Life, TargetKept
  <2>3. PhaseKept({o})
    BY <2>1 DEF PhaseKept, Phase
  <2>4. CASE req[o].kind = "call"
    <3>1. Phase(o) = "pending" /\ Phase(o)' = "died"
      BY <2>1, <2>4 DEF Phase
    <3>2. status[req[o].target] \notin {"serving", "busy"}
      BY <2>1, Targets DEF ListenersAt
    <3>3. req[o].target \in Proc \ {Main} /\ Life(req[o].target) = "dead"
      BY <2>1, <3>2, Targets
    <3>4. Rpc!Fail({o})
      BY <2>2, <2>3, <3>1, <3>3, SeenFail
    <3>5. QED
      BY <1>e, <3>4
  <2>5. CASE req[o].kind # "call"
    <3>1. req[o].kind = "terminate"
      BY <2>1, <2>5 DEF JoinInv
    <3>2. Phase(o)' = Phase(o)
      BY <2>1, <3>1 DEF Phase
    <3>3. PhaseKept({})
      BY <2>3, <3>2 DEF PhaseKept
    <3>4. QED
      BY <1>a, <2>2, <3>3
  <2>6. QED
    BY <2>4, <2>5
<1>9. ASSUME NEW o \in Op, SerializeFails(o) PROVE Seen
  <2>1. /\ pc[o] = "spawned" /\ req[o].kind = "call"
        /\ pc' = [pc EXCEPT ![o] = "done"] /\ reply' = [reply EXCEPT ![o] = "raised"] /\ req' = req
    BY <1>9 DEF SerializeFails
  <2>2. LifeKept /\ TargetKept
    BY <1>9 DEF SerializeFails, procVars, LifeKept, Life, TargetKept
  <2>3. PhaseKept({o}) /\ Phase(o) = "pending" /\ Phase(o)' = "raised"
    BY <2>1 DEF PhaseKept, Phase
  <2>4. Rpc!Refuse(o)
    BY <2>2, <2>3, SeenRefuse
  <2>5. QED
    BY <1>d, <2>4
<1>10. ASSUME NEW o \in Op, TerminatePop(o) PROVE Seen
  <2>1. /\ pc[o] = "closed" /\ req' = req /\ reply' = reply
        /\ pc'[o] \in {"done", "joining"} /\ \A x \in Op \ {o} : pc'[x] = pc[x]
    BY <1>10 DEF TerminatePop
  <2>2. req[o].kind = "terminate"
    BY <2>1 DEF JoinInv
  <2>3. LifeKept /\ TargetKept
    BY <1>10 DEF TerminatePop, LifeKept, Life, TargetKept
  <2>4. PhaseKept({o}) /\ Phase(o) = "stopping"
    BY <2>1, <2>2 DEF PhaseKept, Phase
  <2>5. CASE pc'[o] = "done"
    <3>1. Phase(o)' = "stopped"
      BY <2>1, <2>2, <2>5 DEF Phase
    <3>2. status[req[o].target] \notin {"serving", "busy"}
      BY <2>1, <2>2 DEF StopInv, Gone
    <3>3. Rpc!Stopped(o)
      BY <2>1, <2>3, <2>4, <3>1, <3>2, Targets, SeenStopped
    <3>4. QED
      BY <1>d, <3>3
  <2>6. CASE pc'[o] = "joining"
    <3>1. Phase(o)' = Phase(o)
      BY <2>1, <2>2, <2>6 DEF Phase
    <3>2. PhaseKept({})
      BY <2>4, <3>1 DEF PhaseKept
    <3>3. QED
      BY <1>a, <2>3, <3>2
  <2>7. QED
    BY <2>1, <2>5, <2>6
<1>11. ASSUME NEW o \in Op, TerminateJoined(o) PROVE Seen
  <2>1. /\ pc[o] = "joining" /\ pc' = [pc EXCEPT ![o] = "done"] /\ req' = req /\ reply' = reply
    BY <1>11 DEF TerminateJoined
  <2>2. req[o].kind = "terminate"
    BY <2>1 DEF JoinInv
  <2>3. LifeKept /\ TargetKept
    BY <1>11 DEF TerminateJoined, procVars, LifeKept, Life, TargetKept
  <2>4. PhaseKept({o}) /\ Phase(o) = "stopping" /\ Phase(o)' = "stopped"
    BY <2>1, <2>2 DEF PhaseKept, Phase
  <2>5. status[req[o].target] \notin {"serving", "busy"}
    BY <2>1, <2>2 DEF StopInv, Gone
  <2>6. Rpc!Stopped(o)
    BY <2>1, <2>3, <2>4, <2>5, Targets, SeenStopped
  <2>7. QED
    BY <1>d, <2>6
<1>12. ASSUME NEW q \in Proc, NEW o \in Conn, AcceptCall(q, o) PROVE Seen
  <2>1. /\ status[q] = "serving" /\ status' = [status EXCEPT ![q] = "busy"]
        /\ pc[o] = "queued" /\ at[o] = q /\ req[o].kind = "call" /\ pc' = [pc EXCEPT ![o] = "served"]
        /\ UNCHANGED <<addr, req, reply>>
    BY <1>12 DEF AcceptCall, Queue, Accepting
  <2>2. o \in Op
    BY <2>1, CallsAreOps
  <2>3. req[o].target = q
    BY <2>1, <2>2 DEF StopInv
  <2>4. q \in Proc \ {Main} /\ Life(q) = "alive"
    BY <2>1, <2>2, <2>3, Targets
  <2>5. LifeKept /\ TargetKept
    BY <2>1 DEF LifeKept, Life, TargetKept
  <2>6. PhaseKept({o}) /\ Phase(o) = "pending" /\ Phase(o)' = "running"
    BY <2>1, <2>2 DEF PhaseKept, Phase
  <2>7. ASSUME NEW x \in Op, req[x].target = q, Phase(x) = "running" PROVE FALSE
    BY <2>1, <2>7, RunningIsServed
  <2>8. Rpc!Begin(o)
    BY <2>2, <2>3, <2>4, <2>5, <2>6, <2>7, SeenBegin
  <2>9. QED
    BY <1>d, <2>2, <2>8
<1>13. ASSUME NEW q \in Proc, NEW o \in Conn, RejectCall(q, o) PROVE Seen
  <2>1. /\ pc[o] = "queued" /\ req[o].kind = "call"
        /\ pc' = [pc EXCEPT ![o] = "done"] /\ reply' = [reply EXCEPT ![o] = "raised"] /\ req' = req
    BY <1>13 DEF RejectCall, Queue
  <2>2. o \in Op
    BY <2>1, CallsAreOps
  <2>3. LifeKept /\ TargetKept
    BY <1>13 DEF RejectCall, procVars, LifeKept, Life, TargetKept
  <2>4. PhaseKept({o}) /\ Phase(o) = "pending" /\ Phase(o)' = "raised"
    BY <2>1, <2>2 DEF PhaseKept, Phase
  <2>5. Rpc!Refuse(o)
    BY <2>2, <2>3, <2>4, SeenRefuse
  <2>6. QED
    BY <1>d, <2>2, <2>5
<1>14. ASSUME NEW q \in Proc, NEW o \in Conn, AcceptBroken(q, o) PROVE Seen
  <2>1. /\ status[q] = "serving" /\ pc[o] = "queued" /\ status[req[o].caller] = "dead"
        /\ pc' = [pc EXCEPT ![o] = "lost"] /\ UNCHANGED <<addr, req, reply>>
    BY <1>14 DEF AcceptBroken, Queue, Accepting
  <2>2. PICK s \in {"serving", "closing"} : status' = [status EXCEPT ![q] = s]
    BY <1>14 DEF AcceptBroken
  <2>3. o \notin Op
    BY <2>1 DEF ServeInv
  <2>4. PhaseKept({}) /\ TargetKept
    BY <2>1, <2>3 DEF PhaseKept, Phase, TargetKept
  <2>5. CASE s = "serving"
    <3>1. LifeKept
      BY <2>1, <2>2, <2>5 DEF LifeKept, Life
    <3>2. QED
      BY <1>a, <2>4, <3>1
  <2>6. CASE s = "closing"
    <3>1. q # Main
      BY <2>1 DEF MainInv
    <3>2. addr[q] \in Port
      BY <2>1, <3>1 DEF MainInv
    <3>3. Life(q) = "alive" /\ Life(q)' = "dead" /\ \A x \in Proc \ {Main, q} : Life(x)' = Life(x)
      BY <2>1, <2>2, <2>6, <3>2 DEF Life
    <3>4. ASSUME NEW x \in Op, req[x].target = q, Phase(x) = "running" PROVE FALSE
      BY <2>1, <3>4, RunningIsServed
    <3>5. Rpc!Stop(q)
      BY <2>4, <3>1, <3>3, <3>4, SeenStop
    <3>6. QED
      BY <1>b, <3>1, <3>5
  <2>7. QED
    BY <2>5, <2>6
<1>15. ASSUME NEW q \in Proc, NEW o \in Conn, AcceptTerminate(q, o) PROVE Seen
  <2>1. /\ status[q] = "serving" /\ status' = [status EXCEPT ![q] = "closing"]
        /\ pc[o] = "queued" /\ req[o].kind = "terminate" /\ UNCHANGED <<addr, req>>
    BY <1>15 DEF AcceptTerminate, Queue, Accepting
  <2>2. pc' = [pc EXCEPT ![o] = "closed"] /\ \A x \in Op : reply'[x] = reply[x]
    BY <1>15 DEF AcceptTerminate, Disconnect
  <2>3. PhaseKept({}) /\ TargetKept
    BY <2>1, <2>2 DEF PhaseKept, Phase, TargetKept
  <2>4. q # Main
    BY <2>1 DEF MainInv
  <2>5. addr[q] \in Port
    BY <2>1, <2>4 DEF MainInv
  <2>6. Life(q) = "alive" /\ Life(q)' = "dead" /\ \A x \in Proc \ {Main, q} : Life(x)' = Life(x)
    BY <2>1, <2>5 DEF Life
  <2>7. ASSUME NEW x \in Op, req[x].target = q, Phase(x) = "running" PROVE FALSE
    BY <2>1, <2>7, RunningIsServed
  <2>8. Rpc!Stop(q)
    BY <2>3, <2>4, <2>6, <2>7, SeenStop
  <2>9. QED
    BY <1>b, <2>4, <2>8
<1>16. ASSUME NEW q \in Proc, NEW how \in {"value", "raised"},
              NEW r \in known[q] \cup {None}, Respond(q, how, r) PROVE Seen
  <2>1. /\ cur[q] \in Op /\ pc[cur[q]] = "served" /\ at[cur[q]] = q /\ req[cur[q]].kind = "call"
    <3>1. cur[q] \in Conn /\ pc[cur[q]] = "served" /\ at[cur[q]] = q
      BY <1>16 DEF Respond, BodyDone, ServedByOne
    <3>2. req[cur[q]].kind = "call"
      BY <3>1 DEF CallInv
    <3>3. QED
      BY <3>1, <3>2, CallsAreOps
  <2>2. /\ status[q] = "busy" /\ status' = [status EXCEPT ![q] = "serving"]
        /\ pc' = [pc EXCEPT ![cur[q]] = "done"] /\ reply' = [reply EXCEPT ![cur[q]] = how]
        /\ UNCHANGED <<addr, req>>
    BY <1>16 DEF Respond, BodyDone, Running
  <2>3. LifeKept /\ TargetKept
    BY <2>2 DEF LifeKept, Life, TargetKept
  <2>4. PICK o \in Op : o = cur[q]
    BY <2>1
  <2>5. PhaseKept({o}) /\ Phase(o) = "running" /\ Phase(o)' = how
    BY <2>1, <2>2, <2>4 DEF PhaseKept, Phase
  <2>6. Rpc!End(o)
    BY <2>3, <2>5, SeenEnd
  <2>7. QED
    BY <1>d, <2>6
<1>17. ASSUME NEW q \in Proc, RespondToDead(q) PROVE Seen
  <2>1. /\ cur[q] \in Op /\ pc[cur[q]] = "served" /\ at[cur[q]] = q /\ req[cur[q]].kind = "call"
    <3>1. cur[q] \in Conn /\ pc[cur[q]] = "served" /\ at[cur[q]] = q
      BY <1>17 DEF RespondToDead, BodyDone, ServedByOne
    <3>2. req[cur[q]].kind = "call"
      BY <3>1 DEF CallInv
    <3>3. QED
      BY <3>1, <3>2, CallsAreOps
  <2>2. status[req[cur[q]].caller] = "dead"
    BY <1>17 DEF RespondToDead
  <2>3. QED
    BY <2>1, <2>2 DEF ServeInv
<1>18. ASSUME NEW q \in Proc, CloseListener(q) PROVE Seen
  <2>1. status[q] = "closing" /\ status' = [status EXCEPT ![q] = "exiting"] /\ UNCHANGED <<addr, req>>
    BY <1>18 DEF CloseListener
  <2>2. LifeKept /\ TargetKept
    BY <2>1 DEF LifeKept, Life, TargetKept
  <2> DEFINE S == {o \in Op : o \in Queue(q) /\ req[o].kind = "call"}
  <2>3. ASSUME NEW o \in S
        PROVE  /\ Phase(o) = "pending" /\ Phase(o)' = "died"
               /\ req[o].target \in Proc \ {Main} /\ Life(req[o].target) = "dead"
    <3>1. pc[o] = "queued" /\ at[o] = q
      BY DEF Queue
    <3>2. pc'[o] = "done" /\ reply'[o] = "died"
      BY <1>18 DEF CloseListener, Disconnect
    <3>3. req[o].target = q
      BY <3>1 DEF StopInv
    <3>4. Phase(o) = "pending" /\ Phase(o)' = "died"
      BY <2>1, <3>1, <3>2 DEF Phase
    <3>5. QED
      BY <2>1, <3>1, <3>3, <3>4, Targets
  <2>4. ASSUME NEW o \in Op \ S PROVE Phase(o)' = Phase(o)
    <3>1. reply'[o] = reply[o] /\ (pc'[o] = pc[o] \/ (pc[o] = "queued" /\ pc'[o] = "closed" /\ req[o].kind # "call"))
      BY <1>18 DEF CloseListener, Disconnect, Queue
    <3>2. pc[o] = "queued" => req[o].kind \in {"call", "terminate"}
      BY DEF JoinInv
    <3>3. QED
      BY <2>1, <3>1, <3>2 DEF Phase
  <2>5. PhaseKept(S)
    BY <2>4 DEF PhaseKept
  <2>6. Rpc!Fail(S)
    BY <2>2, <2>3, <2>5, SeenFail
  <2>7. QED
    BY <1>e, <2>6
<1>19. ASSUME MainExit PROVE Seen
  <2>1. LifeKept
    BY <1>19 DEF MainExit, connVars, LifeKept, Life
  <2>2. PhaseKept({}) /\ TargetKept
    BY <1>19 DEF MainExit, connVars, PhaseKept, TargetKept, Phase
  <2>3. QED
    BY <1>a, <2>1, <2>2
<1>20. ASSUME NEW p \in Proc, NEW c \in todo[p], FinalizerSend(p, c)
       PROVE  Seen
  <2>1. c \in Proc /\ c \notin Op
    BY <1>20 DEF FinalizerSend
  <2>2. LifeKept
    BY <1>20 DEF FinalizerSend, procVars, LifeKept, Life
  <2>3. \A x \in Op : pc'[x] = pc[x] /\ req'[x] = req[x] /\ reply'[x] = reply[x]
    BY <1>20, <2>1 DEF FinalizerSend
  <2>4. PhaseKept({}) /\ TargetKept
    BY <2>3 DEF PhaseKept, TargetKept, Phase
  <2>5. QED
    BY <1>a, <2>2, <2>4
<1>21. ASSUME NEW p \in Proc, NEW c \in todo[p], FinalizerSkip(p, c)
       PROVE  Seen
  <2>1. LifeKept
    BY <1>21 DEF FinalizerSkip, connVars, LifeKept, Life
  <2>2. PhaseKept({}) /\ TargetKept
    BY <1>21 DEF FinalizerSkip, connVars, PhaseKept, TargetKept, Phase
  <2>3. QED
    BY <1>a, <2>1, <2>2
<1>22. ASSUME NEW p \in Proc, NEW c \in todo[p], FinalizerNext(p, c)
       PROVE  Seen
  <2>1. c \in Proc /\ c \notin Op
    BY <1>22 DEF FinalizerNext
  <2>2. LifeKept
    BY <1>22 DEF FinalizerNext, LifeKept, Life
  <2>3. \A x \in Op : pc'[x] = pc[x] /\ req'[x] = req[x] /\ reply'[x] = reply[x]
    BY <1>22, <2>1 DEF FinalizerNext
  <2>4. PhaseKept({}) /\ TargetKept
    BY <2>3 DEF PhaseKept, TargetKept, Phase
  <2>5. QED
    BY <1>a, <2>2, <2>4
<1>23. ASSUME NEW p \in Proc, Exit(p) PROVE Seen
  <2>1. LifeKept
    BY <1>23 DEF Exit, connVars, LifeKept, Life
  <2>2. PhaseKept({}) /\ TargetKept
    BY <1>23 DEF Exit, connVars, PhaseKept, TargetKept, Phase
  <2>3. QED
    BY <1>a, <2>1, <2>2
<1>24. ASSUME NEW q \in Proc, Crash(q) PROVE Seen
  BY <1>24, FS_EmptySet DEF Crash, ServeInv
<1>25. ASSUME UNCHANGED vars PROVE Seen
  <2>1. LifeKept
    BY <1>25 DEF vars, procVars, connVars, LifeKept, Life
  <2>2. PhaseKept({}) /\ TargetKept
    BY <1>25 DEF vars, procVars, connVars, PhaseKept, TargetKept, Phase
  <2>3. QED
    BY <1>a, <2>1, <2>2
<1>26. Seen
  BY <1>1, <1>2, <1>3, <1>4, <1>5, <1>6, <1>7, <1>8, <1>9, <1>10, <1>11, <1>12,
     <1>13, <1>14, <1>15, <1>16, <1>17, <1>18, <1>19, <1>20, <1>21, <1>22,
     <1>23, <1>24, <1>25
  DEF Next, Creation, StartOp, Client, Accept, Finish, Finalizer, Shutdown, Ended
<1>27. QED
  BY <1>26 DEF Seen

(* Callers see what ActorRpc promises: a call runs at most once, on the    *)
(* actor it was made for and one at a time, fails with ActorDiedError only *)
(* if it never ran, and terminate() returns when no call can start any     *)
(* more; for any number of actors, ports and operations, when nobody is    *)
(* killed and no port is given out twice.                                  *)
THEOREM CallersSeeRpc ==
  ASSUME PortReuse = FALSE, MaxCrash = 0
  PROVE  Spec => ImplementsRpc
<1>1. QED
  BY InitTypes, StepTypes, InitCalls, StepCalls, InitStop, StepStop, InitFamily, StepFamily,
     InitJoins, StepJoins, InitFinal, StepFinal, InitServe, StepMain, StepServe, InitRpc, StepRpc,
     PTL DEF Spec, ImplementsRpc, Rpc!RpcSpec
=============================================================================
