----------------------------- MODULE MCSpanFill -----------------------------
(* Instance of SpanFill for TLC: every selection over a short haystack. *)
EXTENDS SpanFill
=============================================================================
