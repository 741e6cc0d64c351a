------------------------------- MODULE OneUse -------------------------------
(***************************************************************************)
(* What the owner of an operation identifier and the recipient of a        *)
(* credential may rely on, without the broker's mutex, permit, prompts,    *)
(* consents, disk and processes.  The daemon lives in rounds and forgets   *)
(* everything between two of them.  In a round an operation is admitted at *)
(* most once, and only if its client asked for it in that round; one       *)
(* operation is unfinished at a time; the recipient is given material only *)
(* while the operation is running, once in a round; and a receipt that     *)
(* says nothing may have run is true of its round.  A client that asks     *)
(* again in a later round is given a new use.                              *)
(***************************************************************************)
EXTENDS Naturals

CONSTANTS
  Op,
  Round     \* 1..n

VARIABLES
  alive,    \* whether the daemon is up
  round,    \* its present life, or the last
  asked,    \* rounds in which an operation was asked for
  status,   \* what delivery_status answers: a state and may_have_run
  used,     \* operations admitted in this round
  given     \* how often a round gave the recipient the material of an operation

Unfinished == {"pending", "running"}
Refusals   == {"denied", "cancelled", "expired", "failed", "uncertain"}
Final      == Refusals \cup {"completed"}
Status     == [state : {"none"} \cup Unfinished \cup Final, mayHaveRun : BOOLEAN]
NoStatus   == [state |-> "none", mayHaveRun |-> FALSE]

ovars == <<alive, round, asked, status, used, given>>

OInit ==
  /\ alive = TRUE /\ round = 1
  /\ asked = [o \in Op |-> {}]
  /\ status = [o \in Op |-> NoStatus]
  /\ used = {}
  /\ given = [o \in Op |-> [r \in Round |-> 0]]

Becomes(o, s, ran) == status' = [status EXCEPT ![o] = [state |-> s, mayHaveRun |-> ran]]

Ask(o) ==
  /\ alive
  /\ asked' = [asked EXCEPT ![o] = @ \cup {round}]
  /\ UNCHANGED <<alive, round, status, used, given>>

Admit(o) ==
  /\ alive
  /\ round \in asked[o] /\ o \notin used
  /\ \A x \in Op : status[x].state \notin Unfinished
  /\ Becomes(o, "pending", FALSE)
  /\ used' = used \cup {o}
  /\ UNCHANGED <<alive, round, asked, given>>

Start(o) ==
  /\ status[o].state = "pending"
  /\ Becomes(o, "running", TRUE)
  /\ UNCHANGED <<alive, round, asked, used, given>>

Give(o) ==
  /\ status[o].state = "running"
  /\ given[o][round] = 0
  /\ given' = [given EXCEPT ![o][round] = 1]
  /\ UNCHANGED <<alive, round, asked, status, used>>

\* A refusal says so, a completion had a recipient, and only an operation that
\* never reached its recipient may deny having run.
Finish(o) ==
  /\ status[o].state \in Unfinished
  /\ \E s \in Final, ran \in BOOLEAN :
       /\ given[o][round] = 1 => ran
       /\ s = "completed" => given[o][round] = 1
       /\ status[o].state = "pending" => ~ran
       /\ Becomes(o, s, ran)
  /\ UNCHANGED <<alive, round, asked, used, given>>

Forget(o) ==
  /\ status[o].state \in Final
  /\ status' = [status EXCEPT ![o] = NoStatus]
  /\ UNCHANGED <<alive, round, asked, used, given>>

\* The end of a round: every result and every admission is forgotten, not what
\* was done.
Lose ==
  /\ alive
  /\ alive' = FALSE
  /\ status' = [o \in Op |-> NoStatus]
  /\ used' = {}
  /\ UNCHANGED <<round, asked, given>>

Renew ==
  /\ ~alive
  /\ alive' = TRUE
  /\ round' = round + 1
  /\ UNCHANGED <<asked, status, used, given>>

ONext ==
  \/ \E o \in Op : Ask(o) \/ Admit(o) \/ Start(o) \/ Give(o) \/ Finish(o) \/ Forget(o)
  \/ Lose \/ Renew

OSpec == OInit /\ [][ONext]_ovars
=============================================================================
