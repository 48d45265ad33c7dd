----------------------------- MODULE MCStreams -----------------------------
(* A small instance of Streams; the connections are interchangeable. *)
EXTENDS Streams, TLC

CONSTANTS a1, a2, r1, r2, c1

TwoAdders == {a1, a2}
TwoReaders == {r1, r2}
OneConsumer == {c1}
OneOrAll == {1, MaxAdds}
FirstOrLater == {Zero, <<1, 0>>}

Symmetry == Permutations(TwoReaders) \cup Permutations(TwoAdders)
=============================================================================
