------------------------------ MODULE TrapSpec ------------------------------
(***************************************************************************)
(* What the trap path of ccos promises: every thread has registers of its  *)
(* own that only its own execution and the results of its own system calls *)
(* change.  Harts, frames, locks and switches do not show.  A context is   *)
(* how far the thread has come (modulo 3, enough to tell the last state    *)
(* from the next) and what it holds in a0.                                 *)
(***************************************************************************)
EXTENDS Integers

CONSTANT Tid
VARIABLES ctx,      \* the context of each thread that is alive
          waiting   \* the threads blocked in join
svars == <<ctx, waiting>>

Fresh == [n |-> 0, a0 |-> "arg"]
After(c) == (c.n + 1) % 3
live == DOMAIN ctx
Without(t) == [u \in live \ {t} |-> ctx[u]]
With(t) == [u \in live \cup {t} |-> IF u = t THEN Fresh ELSE ctx[u]]

SInit == waiting = {} /\ \E T \in SUBSET Tid : ctx = [t \in T |-> Fresh]

Execute(t) == /\ t \notin waiting /\ ctx' = [ctx EXCEPT ![t] = [n |-> After(@), a0 |-> "arg"]]
              /\ UNCHANGED waiting
Ask(t)     == /\ t \notin waiting /\ ctx' = [ctx EXCEPT ![t].a0 = "sys"]
              /\ UNCHANGED waiting
Return(t)  == /\ t \notin waiting
              /\ \E r \in {"sys", "ok", "err"} : ctx' = [ctx EXCEPT ![t] = [n |-> After(@), a0 |-> r]]
              /\ UNCHANGED waiting
Create(t)  == \E u \in Tid \ live :
                /\ ctx' = [With(u) EXCEPT ![t] = [n |-> After(@), a0 |-> "ok"]]
                /\ UNCHANGED waiting
Wait(t)    == /\ t \notin waiting /\ waiting' = waiting \cup {t}
              /\ ctx' = [ctx EXCEPT ![t].n = After(ctx[t])]
Exit(t)    == \/ ctx' = Without(t) /\ UNCHANGED waiting
              \/ \E w \in waiting \ {t} : /\ waiting' = waiting \ {w}
                                          /\ ctx' = [Without(t) EXCEPT ![w].a0 = "ok"]

SNext == \E t \in live : Execute(t) \/ Ask(t) \/ Return(t) \/ Create(t) \/ Wait(t) \/ Exit(t)
\* This is [][SNext]_svars; the condition spares TLC a look at SNext in the many
\* steps of the trap path that do not show here.
SSpec == SInit /\ [][svars' # svars => SNext]_svars
=============================================================================
