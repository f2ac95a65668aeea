----------------------------- MODULE IlvmAlloc ------------------------------
(***************************************************************************)
(* What malloc and free of the ILVM promise a program: a block is made of  *)
(* words no live block has; malloc fails only if no gap is wide enough;    *)
(* free takes the live blocks and nothing else.                            *)
(***************************************************************************)
EXTENDS Integers

CONSTANTS Limit   \* the number of words of the heap

VARIABLES
  first,   \* the first word malloc may hand out
  live,    \* the live blocks: a function from base to size
  asked,   \* the operand of the last malloc or free
  halt     \* "running", or why the program ended

allocVars == <<first, live, asked, halt>>

Words(base, size) == base..base + size - 1

Used == UNION {Words(b, live[b]) : b \in DOMAIN live}

Gap(base, size) == Words(base, size) \subseteq (first..Limit - 1) \ Used

AllocInit ==
  /\ halt = "running" => first \in 2..Limit
  /\ live = [b \in {} |-> 0]
  /\ halt \in {"running", "no heap"}

(* malloc(asked') returns the words from base on.                          *)
Grant(base) ==
  /\ halt = "running" /\ UNCHANGED <<first, halt>>
  /\ asked' > 0 /\ Gap(base, asked')
  /\ live' = [b \in DOMAIN live \cup {base} |-> IF b = base THEN asked' ELSE live[b]]

(* malloc(0) allocates nothing.                                            *)
GrantNothing == halt = "running" /\ asked' = 0 /\ UNCHANGED <<first, live, halt>>

OutOfMemory ==
  /\ halt = "running" /\ halt' = "oom" /\ UNCHANGED <<first, live>>
  /\ \A base \in first..Limit - 1 : asked' > 0 => ~Gap(base, asked')

Drop ==
  /\ halt = "running" /\ UNCHANGED <<first, halt>>
  /\ asked' \in DOMAIN live
  /\ live' = [b \in DOMAIN live \ {asked'} |-> live[b]]

BadFree ==
  /\ halt = "running" /\ halt' = "bad free" /\ UNCHANGED <<first, live>>
  /\ asked' \notin DOMAIN live

(* Any other end of the program.                                           *)
Stop == halt = "running" /\ halt' \notin {"oom", "bad free"} /\ UNCHANGED <<first, live, asked>>

AllocNext ==
  \/ \E base \in first..Limit - 1 : Grant(base)
  \/ GrantNothing \/ OutOfMemory \/ Drop \/ BadFree \/ Stop

AllocSpec == AllocInit /\ [][AllocNext]_allocVars
=============================================================================
