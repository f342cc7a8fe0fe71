------------------------------- MODULE Signal -------------------------------
(***************************************************************************)
(* Signals of kernel/signal.c: pending and blocked sets, dispositions,     *)
(* delivery on the way back to user mode, and the frames that handlers run *)
(* on.                                                                     *)
(*                                                                         *)
(* intr_exit calls do_signal only when it returns to user mode, and one    *)
(* call delivers one signal.  A process that was interrupted or has made   *)
(* a system call therefore passes do_signal before it runs its own code    *)
(* again: due[p] says that it has that still to do.                        *)
(***************************************************************************)
EXTENDS Integers, SequencesExt, FiniteSetsExt

CONSTANTS Proc,    \* processes
          Sig,     \* signal numbers in use, of 1..31
          SIGKILL, SIGSTOP, SIGINT, SIGCHLD,
          Fatal    \* signals whose default action is sys_exit

ASSUME SignalAssumption ==
  /\ Sig \subseteq 1 .. 31
  /\ Fatal \subseteq Sig \ {SIGCHLD}

VARIABLES st,         \* task_struct.status; READY stands for RUNNING as well
          pc,         \* "user", or the call a process is in
          signal,     \* pending signals
          blocked,
          sigactions,
          frames,     \* what setup_frame has put on the user stack
          due,        \* has do_signal still to run before user code?
          mask        \* history: the mask the program has asked for

sigVars == <<signal, blocked, sigactions, frames, due, mask>>

Action == [handler : {"DFL", "IGN", "fn"}, restorer : BOOLEAN, mask : SUBSET Sig]

Default == [handler |-> "DFL", restorer |-> FALSE, mask |-> {}]

SignalInit ==
  /\ st = [p \in Proc |-> "READY"]
  /\ pc = [p \in Proc |-> "user"]
  /\ signal = [p \in Proc |-> {}]
  /\ blocked = [p \in Proc |-> {}]
  /\ frames = [p \in Proc |-> <<>>]
  /\ due = [p \in Proc |-> FALSE]
  /\ mask = [p \in Proc |-> {}]

\* signal_pending.
SignalPending(p) == signal[p] \ blocked[p]

\* Does p execute its own code?
InUser(p) == st[p] = "READY" /\ pc[p] = "user" /\ ~ due[p]

-----------------------------------------------------------------------------
\* setup_frame: the signal and the mask to return to, on top of the user stack.
SetupFrame(p, s) ==
  frames' = [frames EXCEPT ![p] = Append(@, [sig |-> s, blocked |-> blocked[p]])]

\* Mutant: the handler's signal is not blocked while it runs.
DoSignalReentrant(p, s) ==
  LET sa == sigactions[p][s] IN
  \/ /\ sa.handler = "IGN" \/ (sa.handler = "DFL" /\ s \notin Fatal)
     /\ UNCHANGED <<st, blocked, frames>>
  \/ /\ (sa.handler = "DFL" /\ s \in Fatal) \/ (sa.handler = "fn" /\ ~ sa.restorer)
     /\ st' = [st EXCEPT ![p] = "DIED"]
     /\ UNCHANGED <<blocked, frames>>
  \/ /\ sa.handler = "fn" /\ sa.restorer
     /\ blocked' = [blocked EXCEPT ![p] = (@ \cup sa.mask) \ {SIGKILL, SIGSTOP}]
     /\ SetupFrame(p, s)
     /\ UNCHANGED st

\* do_signal from the choice of the signal on: it is ignored, it ends the
\* process, or its handler gets a frame with the old mask.  A handler without
\* a restorer could not return, and ends the process too.
DoSignalOf(p, s) ==
  LET sa == sigactions[p][s] IN
  \/ /\ sa.handler = "IGN" \/ (sa.handler = "DFL" /\ s \notin Fatal)
     /\ UNCHANGED <<st, blocked, frames>>
  \/ /\ (sa.handler = "DFL" /\ s \in Fatal) \/ (sa.handler = "fn" /\ ~ sa.restorer)
     /\ st' = [st EXCEPT ![p] = "DIED"]
     /\ UNCHANGED <<blocked, frames>>
  \/ /\ sa.handler = "fn" /\ sa.restorer
     /\ blocked' = [blocked EXCEPT ![p] = (@ \cup {s} \cup sa.mask) \ {SIGKILL, SIGSTOP}]
     /\ SetupFrame(p, s)
     /\ UNCHANGED st

\* intr_exit to user mode, with do_signal: the lowest signal that is not
\* blocked is taken.
IntrExit(p) ==
  /\ st[p] = "READY" /\ pc[p] = "user" /\ due[p]
  /\ due' = [due EXCEPT ![p] = FALSE]
  /\ IF SignalPending(p) = {}
     THEN UNCHANGED <<st, signal, blocked, frames>>
     ELSE \E s \in SignalPending(p) :
            /\ \A r \in SignalPending(p) : s <= r
            /\ signal' = [signal EXCEPT ![p] = @ \ {s}]
            /\ DoSignalOf(p, s)
  /\ UNCHANGED <<pc, sigactions, mask>>

\* An interrupt takes a process that still has a signal to be delivered out
\* of user mode, and so past do_signal.
Tick(p) ==
  /\ InUser(p) /\ SignalPending(p) # {}
  /\ due' = [due EXCEPT ![p] = TRUE]
  /\ UNCHANGED <<st, pc, signal, blocked, sigactions, frames, mask>>

\* sys_sigreturn, called by the restorer when a handler returns.
SysSigreturn(p) ==
  /\ InUser(p) /\ frames[p] # <<>>
  /\ blocked' = [blocked EXCEPT ![p] = Last(frames[p]).blocked]
  /\ frames' = [frames EXCEPT ![p] = Front(@)]
  /\ due' = [due EXCEPT ![p] = TRUE]
  /\ UNCHANGED <<st, pc, signal, sigactions, mask>>

\* sys_signal: the restorer stays as it is, the mask is cleared.
SysSignal(p, s, h) ==
  /\ InUser(p)
  /\ sigactions' = [sigactions EXCEPT ![p][s].handler = h, ![p][s].mask = {}]
  /\ due' = [due EXCEPT ![p] = TRUE]
  /\ UNCHANGED <<st, pc, signal, blocked, frames, mask>>

\* sys_sigaction and sys_rt_sigaction.  No signal is refused.
SysSigaction(p, s, sa) ==
  /\ InUser(p)
  /\ sigactions' = [sigactions EXCEPT ![p][s] = sa]
  /\ due' = [due EXCEPT ![p] = TRUE]
  /\ UNCHANGED <<st, pc, signal, blocked, frames, mask>>

\* sys_sigprocmask, called outside of handlers.
SysSigprocmask(p, how, set) ==
  /\ InUser(p) /\ frames[p] = <<>>
  /\ blocked' = [blocked EXCEPT ![p] =
       (CASE how = "BLOCK"   -> @ \cup set
          [] how = "UNBLOCK" -> @ \ set
          [] how = "SETMASK" -> set) \ {SIGKILL, SIGSTOP}]
  /\ mask' = [mask EXCEPT ![p] = blocked'[p]]
  /\ due' = [due EXCEPT ![p] = TRUE]
  /\ UNCHANGED <<st, pc, signal, sigactions, frames>>

\* send_signal: a process that waits interruptibly is woken, unless it blocks
\* the signal.
SendSignal(p, q, s) ==
  /\ signal' = [signal EXCEPT ![q] = @ \cup {s}]
  /\ st' = IF st[q] = "WAITING" /\ s \notin blocked[q]
           THEN [st EXCEPT ![q] = "READY"] ELSE st
  /\ due' = [r \in Proc |-> r \in {p, q} \/ due[r]]

\* sys_kill.  pid2thread still finds a process that has exited.
SysKill(p, q, s) ==
  /\ InUser(p)
  /\ SendSignal(p, q, s)
  /\ UNCHANGED <<pc, blocked, sigactions, frames, mask>>

\* kill_pgrp, from an interrupt handler: the bit is set and nobody is woken.
KillPgrp(group, s) ==
  /\ signal' = [p \in Proc |-> IF p \in group THEN signal[p] \cup {s} ELSE signal[p]]
  /\ due' = [p \in Proc |-> p \in group \/ due[p]]

\* sys_pause.
SysPause(p) ==
  /\ InUser(p)
  /\ st' = [st EXCEPT ![p] = "WAITING"]
  /\ pc' = [pc EXCEPT ![p] = "pause"]
  /\ UNCHANGED sigVars

\* It returns -EINTR to whoever woke it.
PauseReturns(p) ==
  /\ pc[p] = "pause" /\ st[p] = "READY"
  /\ pc' = [pc EXCEPT ![p] = "user"]
  /\ due' = [due EXCEPT ![p] = TRUE]
  /\ UNCHANGED <<st, signal, blocked, sigactions, frames, mask>>

=============================================================================
