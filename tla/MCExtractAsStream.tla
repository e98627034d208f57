-------------------------- MODULE MCExtractAsStream --------------------------
(* Constants of ExtractAsStream for TLC. *)
EXTENDS ExtractAsStream, TLC

CONSTANTS w1, w2

MCWorkers == {w1, w2}

TextPage(n, k) == [kind |-> "text", len |-> n, ops |-> k]

BadPage(k) == [kind |-> "bad", len |-> 0, ops |-> k]

\* Every mix of short, long, empty and failing pages.
StreamDocs == [Pages -> {TextPage(2, 1), TextPage(1, 0), TextPage(0, 0),
                         BadPage(0)}]
=============================================================================
