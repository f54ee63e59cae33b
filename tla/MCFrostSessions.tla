-------------------------- MODULE MCFrostSessions ---------------------------
(* A group of two signers: constants only.                                 *)
EXTENDS FrostSessions, TLC

CONSTANTS q1, q2, m1, m2, a1, a2, s1, s2

Symmetry == Permutations({a1, a2}) \union Permutations({s1, s2})

\* One session with calls that overlap; with a second nonce of one signer; with
\* TLSNotary evidence; two sessions outliving each other; three abandoned ones;
\* two key generations.
MCScenes ==
  LET once == [hosts |-> {"sign"}, tlsn |-> FALSE, queries |-> {q1},
               messages |-> {m1}, sessions |-> 1, nonces |-> [s \in Signers |-> 1],
               overlap |-> TRUE, until |-> 0]
      long == [once EXCEPT !.sessions = 2, !.overlap = FALSE, !.until = 3] IN
  {[once EXCEPT !.messages = {m1, m2}],
   [once EXCEPT !.nonces[1] = 2, !.overlap = FALSE],
   [once EXCEPT !.tlsn = TRUE],
   long,
   [long EXCEPT !.queries = Queries, !.sessions = 3, !.nonces = [s \in Signers |-> 0]],
   [long EXCEPT !.hosts = {"dkg"}]}
=============================================================================
