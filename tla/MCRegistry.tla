------------------------------ MODULE MCRegistry ------------------------------
(* The registry with three hashes and three signers.  Alice and Bob sign   *)
(* everything with each other; Carol signs confirmations against Alice and *)
(* amendments of Alice's trades, but nobody countersigns her, and Bob signs *)
(* only some terminations.                                                  *)
EXTENDS Registry, TLC

CONSTANTS alice, bob, carol

Pair(a, b, m(_)) == {<<a, m(b)>>, <<b, m(a)>>}

MCSigned ==
  UNION { LET C(cp) == ConfirmMsg(h, cp) IN Pair(alice, bob, C) : h \in Hashes }
  \union UNION { LET A(cp) == AmendMsg(p, h, cp) IN Pair(alice, bob, A) : p, h \in Hashes }
  \union { <<alice, TerminateMsg(h, bob)>> : h \in Hashes }
  \union { <<bob, TerminateMsg(CHOOSE h \in Hashes : TRUE, alice)>> }
  \union { <<carol, ConfirmMsg(h, alice)>> : h \in Hashes }
  \union { <<alice, ConfirmMsg(ZeroHash, bob)>>, <<bob, ConfirmMsg(ZeroHash, alice)>> }
  \union { <<alice, ConfirmMsg(h, alice)>> : h \in Hashes }
=============================================================================
