----------------------------- MODULE ByteStream -----------------------------
(***************************************************************************)
(* What the simulated TCP (crates/rios-device/src/tcp.rs) promises to its  *)
(* applications, BGP and the device services: each incarnation of a        *)
(* connection is a stream in each direction; bytes come out in the order   *)
(* they went in, none twice and none of another incarnation, and the end   *)
(* of the stream is seen only after every byte.                            *)
(***************************************************************************)
EXTENDS Naturals, Sequences

CONSTANT Stream  \* one per connection opened and direction

VARIABLES
    written,  \* what the application has given to tcp_send
    shut,     \* the application has called tcp_close
    accepted, \* what the other end has accepted
    eof       \* the other end has seen the end of the stream

vars == <<written, shut, accepted, eof>>

Init ==
    /\ written = [i \in Stream |-> 0]
    /\ shut = [i \in Stream |-> FALSE]
    /\ accepted = [i \in Stream |-> <<>>]
    /\ eof = [i \in Stream |-> FALSE]

Write(i) ==
    /\ ~shut[i]
    /\ written' = [written EXCEPT ![i] = @ + 1]
    /\ UNCHANGED <<shut, accepted, eof>>

Shut(i) ==
    /\ ~shut[i]
    /\ shut' = [shut EXCEPT ![i] = TRUE]
    /\ UNCHANGED <<written, accepted, eof>>

\* The next byte of the stream, byte n being the n-th one written.
Accept(i) ==
    /\ ~eof[i]
    /\ Len(accepted[i]) < written[i]
    /\ accepted' = [accepted EXCEPT ![i] = Append(@, Len(@) + 1)]
    /\ UNCHANGED <<written, shut, eof>>

End(i) ==
    /\ shut[i] /\ ~eof[i]
    /\ Len(accepted[i]) = written[i]
    /\ eof' = [eof EXCEPT ![i] = TRUE]
    /\ UNCHANGED <<written, shut, accepted>>

\* The first conjunct only spares TLC the others on a stuttering step.
Next ==
    /\ vars' # vars
    /\ \E i \in Stream : Write(i) \/ Shut(i) \/ Accept(i) \/ End(i)

Spec == Init /\ [][Next]_vars

=============================================================================
