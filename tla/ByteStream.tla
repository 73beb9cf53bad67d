----------------------------- MODULE ByteStream -----------------------------
(***************************************************************************)
(* What the receiving side of a TCP connection promises its application,   *)
(* with no windows, buffers, microtasks or pulls: the bytes the peer sent  *)
(* are read in order, each once, and the end is reported after the last of *)
(* them, when the peer has ended its side, and never again followed by     *)
(* anything.  The promise ends when one side gives the connection up.      *)
(***************************************************************************)
EXTENDS Integers

VARIABLES sent,      \* bytes the peer has sent
          finished,  \* it has ended its side
          read,      \* bytes the application has read
          promise    \* "kept", "fulfilled" (the end was reported) or "void"

streamVars == <<sent, finished, read, promise>>

StreamInit == sent = 0 /\ finished = FALSE /\ read = 0 /\ promise = "kept"

Send ==
  /\ promise = "kept" /\ ~finished
  /\ sent' \in Nat /\ sent' > sent
  /\ UNCHANGED <<finished, read, promise>>

Finish ==
  /\ promise = "kept" /\ ~finished
  /\ finished' = TRUE
  /\ UNCHANGED <<sent, read, promise>>

Take ==
  /\ promise = "kept"
  /\ read' \in read + 1 .. sent
  /\ UNCHANGED <<sent, finished, promise>>

\* With the last bytes or after them.
End ==
  /\ promise = "kept" /\ finished
  /\ read' = sent /\ promise' = "fulfilled"
  /\ UNCHANGED <<sent, finished>>

GiveUp == promise = "kept" /\ promise' = "void"

\* Nothing is promised any more.
Void == promise = "void" /\ promise' = "void"

StreamNext == Send \/ Finish \/ Take \/ End \/ GiveUp \/ Void

StreamSpec == StreamInit /\ [][StreamNext]_streamVars
=============================================================================
