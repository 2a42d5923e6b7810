----------------------------- MODULE TaskBoard -----------------------------
(***************************************************************************)
(* What managers and reps may expect of tasks: a board on which each       *)
(* operation happens at once, and a log that tells the whole story.        *)
(* ManagerTasks implements it while the users of a task take turns.        *)
(***************************************************************************)
EXTENDS Sequences

CONSTANTS Ids, Topics, Authors, Remarks, Absent

VARIABLES
    board,   \* the status of each id (NONE until it is assigned), what the
             \* task is about and the log entry that moved it last
    log      \* entries in order: which task went from where to where

Init ==
    /\ board = [t \in Ids |-> [status |-> "NONE", about |-> Absent, last |-> Absent]]
    /\ log = <<>>

\* A new task, unless one about the same thing is open.
Assign(t, topic, u, n) ==
    /\ board[t].status = "NONE"
    /\ ~\E o \in Ids : board[o].status = "OPEN" /\ board[o].about = topic
    /\ board' = [board EXCEPT ![t] = [status |-> "OPEN", about |-> topic, last |-> Absent]]
    /\ log' = Append(log, [task |-> t, from |-> "NONE", to |-> "OPEN", by |-> u, notes |-> n])

Move(t, to, u, n) ==
    LET entry == [task |-> t, from |-> board[t].status, to |-> to, by |-> u, notes |-> n] IN
    /\ board[t].status # "NONE"
    /\ board' = [board EXCEPT ![t] = [status |-> to, about |-> @.about, last |-> entry]]
    /\ log' = Append(log, entry)

Next == \E t \in Ids, u \in Authors, n \in Remarks :
    \/ \E topic \in Topics : Assign(t, topic, u, n)
    \/ \E to \in {"COMPLETED", "BLOCKED", "CANCELLED"} : Move(t, to, u, n)

Spec == Init /\ [][Next]_<<board, log>>
=============================================================================
