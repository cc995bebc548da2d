----------------------------- MODULE MCProcess -----------------------------
(* Small instances of Process for TLC. *)
EXTENDS Process

CONSTANT p1

NoPipes == {}
OnePipe == {p1}

AnyChildOnly == {AnyChild}
AnyOrSecond == {AnyChild, 2}
=============================================================================
