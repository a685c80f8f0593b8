------------------------------ MODULE MCTransfer ------------------------------
(* TLC instances of Transfer. *)
EXTENDS Transfer, TLC

CONSTANTS alice, bob, carol, k1, k2

Send(f, t, a, k) == [from |-> f, to |-> t, amount |-> a, key |-> k]

\* Two submissions of alice's and a payment back to her, each of which the
\* clients may repeat, a transfer to herself and one to a stranger.
Mixed == {Send(alice, bob, 2, k1), Send(alice, bob, 1, k2), Send(bob, alice, 1, k1),
          Send(alice, alice, 1, k1), Send(alice, carol, 1, k1)}
\* Opposite payments, and one without a key.
Crossing == {Send(alice, bob, 1, k1), Send(bob, alice, 1, k1), Send(alice, bob, 1, NoKey)}
Keyless == {Send(alice, bob, 1, NoKey)}

ThreeEach == [u \in Users |-> 3]

Symmetry == Permutations(Requests)
=============================================================================
