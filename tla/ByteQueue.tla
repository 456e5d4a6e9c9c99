----------------------------- MODULE ByteQueue -----------------------------
(***************************************************************************)
(* What a serial line with a buffer promises: every byte of a string that  *)
(* somebody submits is delivered once, and in the order in which the bytes *)
(* entered the queue.  Strings of several sources may mix, byte by byte.   *)
(***************************************************************************)
EXTENDS Sequences

CONSTANTS
  Sources,     \* who submits strings
  Strings      \* the strings they submit

VARIABLES
  src,         \* src[s]: what is left of the string of s
  q,           \* the bytes in the queue
  dst          \* the byte that is being delivered, or None

queueVars == <<src, q, dst>>

None == "none"

Init ==
  /\ src \in [Sources -> {<<>>} \cup Strings]
  /\ q = <<>>
  /\ dst = None

Submit(s) ==
  /\ src[s] = <<>>
  /\ \E str \in Strings : src' = [src EXCEPT ![s] = str]
  /\ UNCHANGED <<q, dst>>

Put(s) ==
  /\ src[s] # <<>>
  /\ q' = Append(q, Head(src[s]))
  /\ src' = [src EXCEPT ![s] = Tail(@)]
  /\ UNCHANGED dst

Take ==
  /\ q # <<>> /\ dst = None
  /\ q' = Tail(q)
  /\ dst' = Head(q)
  /\ UNCHANGED src

Delivered ==
  /\ dst # None
  /\ dst' = None
  /\ UNCHANGED <<src, q>>

\* A reset of the processor loses what it holds.
Reset ==
  /\ src' = [s \in Sources |-> <<>>]
  /\ q' = <<>>
  /\ dst' = None

Next == Take \/ Delivered \/ Reset \/ \E s \in Sources : Submit(s) \/ Put(s)

Spec == Init /\ [][Next]_queueVars
=============================================================================
