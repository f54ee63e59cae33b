----------------------------- MODULE TlsnNotary -----------------------------
(***************************************************************************)
(* Making a TLSNotary presentation: provers (crates/tlsn-prover) that run  *)
(* the protocol with the verifier server (crates/tlsn-server) over TCP or  *)
(* a WebSocket, or with a verifier in their own process, and the sessions  *)
(* the server keeps between the connections of one prover.  Every handler  *)
(* is a task of its own; a prover may stop and a connection break anywhere. *)
(***************************************************************************)
EXTENDS VerifierHost, FiniteSetsExt

CONSTANTS
  Provers,   \* prover processes; each draws a session id of its own
  MaxPolls,  \* attempts of handle_tcp_attest
  MaxLength  \* length of a request (a bound)

VARIABLES
  prover,    \* where each process is
  task,      \* its MPC connection at the verifier
  stored,    \* tcp_sessions
  open,      \* ws_sessions
  senders,   \* ws_results
  results,   \* results in the channel between verifier and session handler
  session,   \* the handler of its /session connection
  polls,     \* the handler of its attest connection: attempts so far
  answer,    \* what has arrived on the connection the prover waits on
  verified,  \* history: runs the verifier completed
  shown      \* presentations: ranges of the request to redact, ranges revealed

notaryVars == <<prover, task, stored, open, senders, results, session, polls, answer,
                verified, shown>>

Answers == {"attestation", "completed", "error", "closed"}
Tasks == {"mpc", "closing", "request", "over"}
Sessions == {"result", "reveal", "over"}

ASSUME NotaryAssumption ==
  /\ IsFiniteSet(Provers) /\ MaxPolls \in Nat /\ MaxLength \in Nat
  /\ None \notin Answers \union Tasks \union Sessions \union Nat

\* Ranges of the bytes of a request, which has setup.length; the end is excluded.
ByteRange(n) == [start : 0..n, end : 0..n]

NotaryTypeOK ==
  /\ prover \in [Provers -> {"idle", "register", "connect", "mpc", "proved", "waits", "done", "failed"}]
  /\ task \in [Provers -> Tasks \union {None}]
  /\ \A map \in {stored, open, senders, results, verified} : map \subseteq Provers
  /\ session \in [Provers -> Sessions \union {None}]
  /\ polls \in [Provers -> 0..MaxPolls \union {None}]
  /\ answer \in [Provers -> Answers \union {None}]
  /\ shown \in [Provers -> {None} \union [redact : SUBSET ByteRange(setup.length),
                                         reveal : SUBSET ByteRange(setup.length)]]

NotaryInit ==
  LET none == [p \in Provers |-> None] IN
  /\ prover = [p \in Provers |-> "idle"]
  /\ task = none /\ session = none /\ polls = none /\ answer = none /\ shown = none
  /\ stored = {} /\ open = {} /\ senders = {} /\ results = {} /\ verified = {}

Over(p, transport) == setup.transport[p] = transport
Moves(p, from, to) == prover[p] = from /\ prover' = [prover EXCEPT ![p] = to]
Task(p, at) == task' = [task EXCEPT ![p] = at]
Says(p, what) == answer' = [answer EXCEPT ![p] = what]

-----------------------------------------------------------------------------
(* Before the protocol run.                                                *)

\* main: the target parses and the first connection stands.  The MPC connection
\* over TCP says 'M' and the session id; in the process it is a pipe.
StartProver(p) ==
  /\ IF Over(p, "ws") THEN Moves(p, "idle", "register") /\ UNCHANGED task
     ELSE Moves(p, "idle", "mpc") /\ Task(p, "mpc")
  /\ UNCHANGED <<stored, open, senders, results, session, polls, answer, verified, shown>>

\* handle_session_ws_raw up to its first wait.  When the answer cannot be sent
\* the handler returns, and both entries stay.
RegisterSession(p) ==
  /\ open' = open \union {p} /\ senders' = senders \union {p}
  /\ \/ Moves(p, "register", "connect") /\ session' = [session EXCEPT ![p] = "result"]
     \/ Moves(p, "register", "failed") /\ session' = [session EXCEPT ![p] = "over"]
  /\ UNCHANGED <<task, stored, results, polls, answer, verified, shown>>

\* handle_verifier_ws_raw: the session id is good for one connection.
ConnectVerifier(p) ==
  /\ Moves(p, "connect", "mpc") /\ p \in open
  /\ open' = open \ {p} /\ Task(p, "mpc")
  /\ UNCHANGED <<stored, senders, results, session, polls, answer, verified, shown>>

-----------------------------------------------------------------------------
(* The protocol run.                                                       *)

\* Both sides have done their part; what is left is to close, each on its own.
Proves(p) ==
  /\ task[p] = "mpc" /\ Moves(p, "mpc", "proved") /\ Task(p, "closing")
  /\ UNCHANGED <<stored, open, senders, results, session, polls, answer, verified, shown>>

Verified(p) == verified' = verified \union {p}

RunProverMpc(p) == Over(p, "tcp") /\ Proves(p)
RunProverMpcFuturesStream(p) == Over(p, "ws") /\ Proves(p)
RunProver(p) == Over(p, "local") /\ Proves(p)

\* handle_tcp_mpc stores the session under the id the prover sent.
HandleTcpMpc(p) ==
  /\ Over(p, "tcp") /\ task[p] = "closing"
  /\ Task(p, "over") /\ stored' = stored \union {p} /\ Verified(p)
  /\ UNCHANGED <<prover, open, senders, results, session, polls, answer, shown>>

\* handle_verifier_ws_raw sends the result to the session's handler, which may
\* have stopped waiting.
SendResult(p) ==
  /\ Over(p, "ws") /\ task[p] = "closing"
  /\ Task(p, "over") /\ senders' = senders \ {p} /\ Verified(p)
  /\ results' = IF p \in senders /\ session[p] = "result" THEN results \union {p} ELSE results
  /\ UNCHANGED <<prover, stored, open, session, polls, answer, shown>>

\* run_verifier waits for the request.
AwaitRequest(p) ==
  /\ Over(p, "local") /\ task[p] = "closing" /\ Task(p, "request") /\ Verified(p)
  /\ UNCHANGED <<prover, stored, open, senders, results, session, polls, answer, shown>>

\* Mutant of VerifierStops: the verifier in the process ends without its channels.
VerifierStopsSilently(p) ==
  /\ task[p] \in {"mpc", "closing", "request"} /\ Task(p, "over")
  /\ UNCHANGED <<prover, stored, open, senders, results, session, polls, answer, verified, shown>>

\* The verifier's side of the run ends with an error; one in the process drops
\* the channel the prover may be waiting on.
VerifierStops(p) ==
  /\ task[p] \in {"mpc", "closing", "request"} /\ Task(p, "over")
  /\ IF Over(p, "local") THEN Says(p, "closed") ELSE UNCHANGED answer
  /\ UNCHANGED <<prover, stored, open, senders, results, session, polls, verified, shown>>

-----------------------------------------------------------------------------
(* The attestation.                                                        *)

\* The second connection, 'A' and the request: handle_tcp_attest begins.
RequestAttestation(p) ==
  /\ Over(p, "tcp") /\ Moves(p, "proved", "waits")
  /\ polls' = [polls EXCEPT ![p] = 0]
  /\ UNCHANGED <<task, stored, open, senders, results, session, answer, verified, shown>>

\* The prover waits for the session's result; in the process, for the
\* attestation, if the verifier still takes the request.
AwaitResult(p) ==
  /\ Over(p, "ws") /\ Moves(p, "proved", "waits")
  /\ UNCHANGED <<task, stored, open, senders, results, session, polls, answer, verified, shown>>

AttestationProtocol(p) ==
  /\ Over(p, "local")
  /\ Moves(p, "proved", IF task[p] = "over" THEN "failed" ELSE "waits")
  /\ UNCHANGED <<task, stored, open, senders, results, session, polls, answer, verified, shown>>

\* handle_tcp_attest takes the session when it is there, now or some polls
\* later, and signs (which may fail).
HandleTcpAttest(p) ==
  /\ polls[p] # None
  /\ IF p \in stored
     THEN /\ stored' = stored \ {p} /\ polls' = [polls EXCEPT ![p] = None]
          /\ \E what \in {"attestation", "closed"} : Says(p, what)
     ELSE /\ UNCHANGED stored
          /\ IF polls[p] < MaxPolls THEN polls' = [polls EXCEPT ![p] = @ + 1] /\ UNCHANGED answer
             ELSE polls' = [polls EXCEPT ![p] = None] /\ Says(p, "closed")
  /\ UNCHANGED <<prover, task, open, senders, results, session, verified, shown>>

\* run_verifier with the request.
RunVerifier(p) ==
  /\ task[p] = "request" /\ prover[p] = "waits" /\ Task(p, "over")
  /\ \E what \in {"attestation", "closed"} : Says(p, what)
  /\ UNCHANGED <<prover, stored, open, senders, results, session, polls, verified, shown>>

\* The session's handler has the result and waits for reveal_config.
SessionResult(p) ==
  /\ session[p] = "result" /\ p \in results
  /\ results' = results \ {p} /\ session' = [session EXCEPT ![p] = "reveal"]
  /\ UNCHANGED <<prover, task, stored, open, senders, polls, answer, verified, shown>>

\* 120 seconds have passed without one; the maps keep their entries.
SessionTimesOut(p) ==
  /\ session[p] = "result" /\ p \notin results
  /\ session' = [session EXCEPT ![p] = "over"] /\ Says(p, "error")
  /\ UNCHANGED <<prover, task, stored, open, senders, results, polls, verified, shown>>

\* With reveal_config, or without after 30 seconds: session_completed is sent.
SessionCompletes(p) ==
  /\ session[p] = "reveal"
  /\ session' = [session EXCEPT ![p] = "over"] /\ Says(p, "completed")
  /\ UNCHANGED <<prover, task, stored, open, senders, results, polls, verified, shown>>

-----------------------------------------------------------------------------
(* The presentation.                                                       *)

Span(n) == [start |-> 0, end |-> n]

\* find_header_value_ranges: values of different headers are apart, behind the
\* request line and before the end of the request.
HeaderValueRanges(redact) ==
  /\ redact \subseteq {r \in ByteRange(setup.length) : 0 < r.start /\ r.start < r.end /\ r.end < setup.length}
  /\ \A r, o \in redact : r = o \/ r.end < o.start \/ o.end < r.start

\* Mutant of Cursor: the byte behind a range goes with it.
CursorWide(ranges) == Max({0} \union {r.end + 1 : r \in ranges})

\* cursor of subtract_ranges, past these ranges: the largest end.
Cursor(ranges) == Max({0} \union {r.end : r \in ranges})

\* subtract_ranges: the gaps before the ranges, each from where the sorted ranges
\* before it end, and the rest.
SubtractRanges(total, redact) ==
  LET gaps == {[start |-> Cursor({o \in redact : o.start < r.start}), end |-> r.start] : r \in redact}
      rest == [start |-> Cursor(redact), end |-> total]
  IN IF redact = {} THEN {Span(total)} ELSE {g \in gaps \union {rest} : g.start < g.end}

\* build_presentation
BuildPresentation(p, redact) ==
  shown' = [shown EXCEPT ![p] = [redact |-> redact,
                                 reveal |-> SubtractRanges(setup.length, redact)]]

\* Mutant of ProverAnswered: any answer of the session counts.
ProverAnsweredAny(p, redact) ==
  /\ answer[p] # None /\ redact \in setup.redact /\ HeaderValueRanges(redact)
  /\ Moves(p, "waits", "done") /\ BuildPresentation(p, redact)
  /\ UNCHANGED <<task, stored, open, senders, results, session, polls, answer, verified>>

\* What the prover waits for arrives: an attestation or the data of a completed
\* session, of which it makes the presentation; or it exits with an error.
ProverAnswered(p, redact) ==
  /\ answer[p] # None /\ redact \in setup.redact /\ HeaderValueRanges(redact)
  /\ IF answer[p] \in {"attestation", "completed"}
     THEN Moves(p, "waits", "done") /\ BuildPresentation(p, redact)
     ELSE Moves(p, "waits", "failed") /\ UNCHANGED shown
  /\ UNCHANGED <<task, stored, open, senders, results, session, polls, answer, verified>>

\* A connection breaks or the process ends.
ProverFails(p) ==
  /\ prover[p] \notin {"idle", "done", "failed"}
  /\ prover' = [prover EXCEPT ![p] = "failed"]
  /\ UNCHANGED <<task, stored, open, senders, results, session, polls, answer, verified, shown>>

NotaryNext ==
  \E p \in Provers :
    \/ StartProver(p) \/ RegisterSession(p) \/ ConnectVerifier(p)
    \/ RunProverMpc(p) \/ RunProverMpcFuturesStream(p) \/ RunProver(p)
    \/ HandleTcpMpc(p) \/ SendResult(p) \/ AwaitRequest(p) \/ VerifierStops(p)
    \/ RequestAttestation(p) \/ AwaitResult(p) \/ AttestationProtocol(p)
    \/ HandleTcpAttest(p) \/ RunVerifier(p)
    \/ SessionResult(p) \/ SessionTimesOut(p) \/ SessionCompletes(p)
    \/ \E redact \in setup.redact : ProverAnswered(p, redact)
    \/ ProverFails(p)

-----------------------------------------------------------------------------
(* Properties.                                                             *)

\* main of tlsn-prover: a presentation is made only of a run that the verifier
\* completed too, although the connection that answers is not the one of the run
\* and the prover is done with the run before the verifier is.
PresentationIsVerified == \A p \in Provers : prover[p] = "done" => p \in verified

\* No prover waits in vain: the connection it waits on has brought an answer or
\* the end, or a handler that will send one of them is still at work, whichever
\* side of the run failed and whichever handler came first.
WaitIsAnswered ==
  \A p \in Provers : prover[p] = "waits" /\ answer[p] = None =>
    \/ polls[p] # None
    \/ session[p] \in {"result", "reveal"}
    \/ Over(p, "local") /\ task[p] \in {"closing", "request"}

Bytes(ranges) == UNION {r.start..(r.end - 1) : r \in ranges}

\* subtract_ranges: the presentation reveals every byte of the request but the
\* redacted ones, in ranges that are not empty.
RevealIsExact ==
  \A p \in Provers : shown[p] # None =>
    /\ Bytes(shown[p].reveal) = (0..(setup.length - 1)) \ Bytes(shown[p].redact)
    /\ \A r \in shown[p].reveal : r.start < r.end
=============================================================================
