----------------------------- MODULE MCToolCall -----------------------------
(* ToolCall on a small instance; see README.md for the bounds.              *)
EXTENDS ToolCall

CONSTANTS s1, o1, k1, reader, writer

MCClientOf == [c \in {o1} |-> k1]
MCTierOf == [tool \in {reader, writer} |-> IF tool = writer THEN 1 ELSE 0]
MCCeilings == {None, 0}

=============================================================================
