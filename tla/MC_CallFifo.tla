----------------------------- MODULE MC_CallFifo -----------------------------
(***************************************************************************)
(* Instances of CallFifo for TLC.  The call table holds one function for   *)
(* every way a call can use the FIFO.                                      *)
(***************************************************************************)
EXTENDS CallFifo

\* A call that agrees on both sides.
Agreeing(args, pushed) == [args |-> args, hostArgs |-> args, pushed |-> pushed, taken |-> pushed]

Table ==
  [vertex |-> Agreeing(1, 0),     \* arguments only
   uniform |-> Agreeing(1, 2),    \* a little data, no look at the room
   getloc |-> Agreeing(1, 2),     \* data and an answer (glGetUniformLocation)
   message |-> Agreeing(1, 2),    \* the same, but run in any case (glDebugMessageInsertARB)
   draw |-> Agreeing(2, 4),       \* glDrawArrays with client arrays
   upload |-> Agreeing(2, 2),     \* mapped_upload_queue
   \* glSetFenceNV, glFinishObjectAPPLE, glTextureBufferEXT: one argument short
   fence |-> [args |-> 1, hostArgs |-> 2, pushed |-> 0, taken |-> 0],
   \* glClearBufferiv of depth or stencil: the guest pads its word, the host does not
   clear |-> [args |-> 1, hostArgs |-> 1, pushed |-> 2, taken |-> 1]]

MCArgs == [c \in Calls |-> Table[c].args]
MCHostArgs == [c \in Calls |-> Table[c].hostArgs]
MCPushed == [c \in Calls |-> Table[c].pushed]
MCTaken == [c \in Calls |-> Table[c].taken]
==============================================================================
