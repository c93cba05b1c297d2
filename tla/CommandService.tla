--------------------------- MODULE CommandService ---------------------------
(***************************************************************************)
(* What the command side of hdmiservice promises, whatever its threads,     *)
(* locks and event bits: commands are taken from one queue, first in, first *)
(* out, each exactly once.  Each is handled or refused; a refusal may       *)
(* leave the rest of the queue stalled until somebody signals again; the    *)
(* exit command closes the service and discards what is still queued.       *)
(***************************************************************************)
EXTENDS Sequences

CONSTANT Commands

VARIABLES
  queue,        \* commands accepted and not yet handled, oldest first
  stalled,      \* TRUE while nothing will be taken from the queue
  open          \* FALSE once the exit command has been handled

csVars == <<queue, stalled, open>>

Init ==
  /\ queue = <<>>
  /\ stalled = FALSE
  /\ open = TRUE

\* A new command ends a stall: its sender signals.
Submit ==
  /\ open
  /\ \E k \in Commands : queue' = Append(queue, k)
  /\ stalled' = FALSE
  /\ UNCHANGED open

\* A signal whose command got lost before it was queued.
Nudge ==
  /\ open
  /\ stalled' = FALSE
  /\ UNCHANGED <<queue, open>>

Serve ==
  /\ open /\ ~stalled
  /\ queue # <<>>
  /\ Head(queue) # "EXIT"
  /\ queue' = Tail(queue)
  /\ UNCHANGED <<stalled, open>>

Refuse ==
  /\ open /\ ~stalled
  /\ queue # <<>>
  /\ Head(queue) # "EXIT"
  /\ queue' = Tail(queue)
  /\ stalled' \in {FALSE, Tail(queue) # <<>>}
  /\ UNCHANGED open

Close ==
  /\ open /\ ~stalled
  /\ queue # <<>>
  /\ Head(queue) = "EXIT"
  /\ queue' = <<>>
  /\ open' = FALSE
  /\ UNCHANGED stalled

Next == Submit \/ Nudge \/ Serve \/ Refuse \/ Close

\* A queue that is not stalled is worked off.
Spec == Init /\ [][Next]_csVars /\ WF_csVars(Serve \/ Refuse \/ Close)

=============================================================================
