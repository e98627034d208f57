------------------------------ MODULE MCExtract ------------------------------
(* Constants of Extract for TLC. *)
EXTENDS Extract

CONSTANTS w1, w2

MCWorkers == {w1, w2}

TextPage(n, k) == [kind |-> "text", len |-> n, ops |-> k]

BadPage(k) == [kind |-> "bad", len |-> 0, ops |-> k]

NullPage == [kind |-> "null", len |-> 0, ops |-> 0]

CrashPage == [kind |-> "crash", len |-> 0, ops |-> 0]

Kinds == {TextPage(2, 1), TextPage(1, 0), TextPage(0, 0), BadPage(1), NullPage,
          CrashPage}

\* Every mix of long, short, empty, failing and missing pages and of pages that
\* end the process.
AllDocs == [Pages -> Kinds]

BothModes == {"strict", "best-effort"}

\* Documents of sound and failing pages only.
FailDocs == [Pages -> {TextPage(1, 0), BadPage(0)}]
=============================================================================
