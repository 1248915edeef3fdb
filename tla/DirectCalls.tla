---------------------------- MODULE DirectCalls ----------------------------
(***************************************************************************)
(* What the pass-through promises an application: its OpenGL calls behave  *)
(* as if each one were made on the host directly.  A call that returns     *)
(* nothing may be posted and left for later; a call with an answer, and    *)
(* every register write that moves a context, returns only when all the    *)
(* calls made before it have run.  When the application dies, the calls    *)
(* it made may still run, or be lost with it; once the next one has        *)
(* started nothing more is lost.                                           *)
(*                                                                         *)
(* A call is whatever identifies it together with the data it carries, so  *)
(* running a call with another call's data is not running it at all.       *)
(***************************************************************************)
EXTENDS Naturals, Sequences

CONSTANT Call           \* everything that could be called

VARIABLES sent,         \* the calls made, in program order
          run,          \* the calls the host has run, in the order it ran them
          asked,        \* TRUE while the application waits for the host
          alive         \* an application is there

vars == <<sent, run, asked, alive>>

Init == /\ sent = <<>>
        /\ run = <<>>
        /\ asked = FALSE
        /\ alive = TRUE

\* A call without an answer is left for the host to run later.
Post == /\ alive /\ ~asked
        /\ \E c \in Call : sent' = Append(sent, c)
        /\ UNCHANGED <<run, asked, alive>>

\* A call with an answer: the application waits.
Ask == /\ alive /\ ~asked
       /\ \E c \in Call : sent' = Append(sent, c)
       /\ asked' = TRUE
       /\ UNCHANGED <<run, alive>>

\* A flush, swap, or context switch: the application waits, no call is added.
Barrier == /\ alive /\ ~asked
           /\ asked' = TRUE
           /\ UNCHANGED <<sent, run, alive>>

\* The host runs the oldest call that has not run yet.
Run == /\ asked
       /\ Len(run) < Len(sent)
       /\ run' = Append(run, sent[Len(run) + 1])
       /\ UNCHANGED <<sent, asked, alive>>

\* The application goes on once everything it has called has run.
Answer == /\ asked
          /\ run = sent
          /\ asked' = FALSE
          /\ UNCHANGED <<sent, run, alive>>

\* The application ends, of itself or not.
Die == /\ alive /\ ~asked
       /\ alive' = FALSE
       /\ UNCHANGED <<sent, run, asked>>

\* The next one starts, with what is left of the calls before it.
Start == /\ ~alive /\ ~asked
         /\ alive' = TRUE
         /\ sent' \in {sent, SubSeq(sent, 1, Len(run))}
         /\ UNCHANGED <<run, asked>>

Next == Post \/ Ask \/ Barrier \/ Run \/ Answer \/ Die \/ Start

Spec == Init /\ [][Next]_vars /\ WF_vars(Run \/ Answer)
=============================================================================
