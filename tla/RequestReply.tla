---------------------------- MODULE RequestReply ----------------------------
(***************************************************************************)
(* What the users of a StreamProvider (StateManager) are promised by       *)
(* execute(): one command at a time; an answer that is this command's own, *)
(* given after the command took effect; and never a second effect, because *)
(* execute() does not retry.  A call that fails promises nothing about the *)
(* effect: the command may have run, may never run, or may still run after *)
(* the error was returned.                                                 *)
(***************************************************************************)
EXTENDS Naturals

CONSTANT
  MaxCalls    \* execute() calls made, a bound for the model checker

VARIABLES
  busy,       \* an execute() call is in progress
  call,       \* number of the last call made
  verdict,    \* what the last completed call returned
  runs        \* runs[c]: how often Liquidsoap carried out the command of call c

vars == <<busy, call, verdict, runs>>

Init == /\ busy = FALSE
        /\ call = 0
        /\ verdict = "none"
        /\ runs = [c \in 1..MaxCalls |-> 0]

Invoke == /\ ~busy
          /\ call < MaxCalls
          /\ busy' = TRUE
          /\ call' = call + 1
          /\ verdict' = "none"
          /\ UNCHANGED runs

(* The command takes effect: once, and while its outcome is not settled as *)
(* a success.                                                              *)
Execute(c) == /\ c \in 1..call
              /\ runs[c] = 0
              /\ runs' = [runs EXCEPT ![c] = 1]
              /\ UNCHANGED <<busy, call, verdict>>

ReturnReply == /\ busy
               /\ runs[call] = 1
               /\ busy' = FALSE
               /\ verdict' = "reply"
               /\ UNCHANGED <<call, runs>>

ReturnError == /\ busy
               /\ busy' = FALSE
               /\ verdict' = "error"
               /\ UNCHANGED <<call, runs>>

Next == \/ Invoke
        \/ \E c \in 1..MaxCalls : Execute(c)
        \/ ReturnReply
        \/ ReturnError

Spec == Init /\ [][Next]_vars
=============================================================================
