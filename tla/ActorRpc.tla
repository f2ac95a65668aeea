------------------------------ MODULE ActorRpc ------------------------------
(***************************************************************************)
(* What the actors of tasks/simple_actors promise their callers, without   *)
(* processes, connections or ports: a call runs at most once, on the actor *)
(* it was made for, one call at a time; it is reported as failed because   *)
(* the actor died only if it never ran; and terminate() returns only when  *)
(* the actor accepts no more calls.  Module Actors implements this when no *)
(* process is killed and no port is given out twice.                       *)
(***************************************************************************)
CONSTANTS Actor, Op, None

VARIABLES life, phase, target

rpcVars == <<life, phase, target>>

RpcTypeOK ==
  /\ life   \in [Actor -> {"unborn", "alive", "dead"}]
  /\ phase  \in [Op -> {"idle", "pending", "running", "value", "raised",
                        "died", "stopping", "stopped"}]
  /\ target \in [Op -> Actor \cup {None}]

RpcInit ==
  /\ life   = [q \in Actor |-> "unborn"]
  /\ phase  = [o \in Op |-> "idle"]
  /\ target = [o \in Op |-> None]

RunningOn(q) == {o \in Op : target[o] = q /\ phase[o] = "running"}

Birth(q) ==
  /\ life[q] = "unborn"
  /\ life' = [life EXCEPT ![q] = "alive"]
  /\ UNCHANGED <<phase, target>>

(* An operation is started: a call, or a termination request.              *)
Invoke(o, q) ==
  /\ phase[o] = "idle"
  /\ life[q] # "unborn"
  /\ \E s \in {"pending", "stopping"} : phase' = [phase EXCEPT ![o] = s]
  /\ target' = [target EXCEPT ![o] = q]
  /\ UNCHANGED life

Begin(o) ==
  /\ phase[o] = "pending"
  /\ life[target[o]] = "alive"
  /\ RunningOn(target[o]) = {}
  /\ phase' = [phase EXCEPT ![o] = "running"]
  /\ UNCHANGED <<life, target>>

(* The request never reached the method: it cannot be transported.         *)
Refuse(o) ==
  /\ phase[o] = "pending"
  /\ phase' = [phase EXCEPT ![o] = "raised"]
  /\ UNCHANGED <<life, target>>

End(o) ==
  /\ phase[o] = "running"
  /\ \E how \in {"value", "raised"} : phase' = [phase EXCEPT ![o] = how]
  /\ UNCHANGED <<life, target>>

(* Calls that never ran fail together when their actor goes away.          *)
Fail(S) ==
  /\ \A o \in S : phase[o] = "pending" /\ life[target[o]] = "dead"
  /\ phase' = [o \in Op |-> IF o \in S THEN "died" ELSE phase[o]]
  /\ UNCHANGED <<life, target>>

Stop(q) ==
  /\ life[q] = "alive"
  /\ RunningOn(q) = {}
  /\ life' = [life EXCEPT ![q] = "dead"]
  /\ UNCHANGED <<phase, target>>

Stopped(o) ==
  /\ phase[o] = "stopping"
  /\ life[target[o]] = "dead"
  /\ phase' = [phase EXCEPT ![o] = "stopped"]
  /\ UNCHANGED <<life, target>>

RpcNext ==
  \/ \E q \in Actor : Birth(q) \/ Stop(q) \/ \E o \in Op : Invoke(o, q)
  \/ \E o \in Op : Begin(o) \/ Refuse(o) \/ End(o) \/ Stopped(o)
  \/ \E S \in SUBSET Op : Fail(S)

RpcSpec == RpcInit /\ [][RpcNext]_rpcVars
=============================================================================
