--------------------------- MODULE HandshakeTests ---------------------------
(***************************************************************************)
(* The conformance tests of tests/conformance/handshake.rs: 001          *)
(* (handshake_responder_side), 002 (handshake_initiator_side), 003        *)
(* (reject_non_version_before_handshake), 004                              *)
(* (reject_non_version_replies_to_version) and 006                         *)
(* (reject_version_reusing_nonce).  001 and 002 run one handshake; in 003, *)
(* 004 and 006 the SUT reacts to a message it must reject ("Msg": a        *)
(* non-Version message, or in 006 a Version reusing the SUT's nonce) in    *)
(* one of the ways the tests' comments list:                               *)
(*   a) ignore it, b) terminate the connection, c) respond to it,          *)
(*   d) become unresponsive;                                               *)
(* c) is split into a reply sent at once and one sent after the SUT's     *)
(* Verack.  Every test message has its own connection; test 003 walks them *)
(* in turn, test 004 runs one task per connection and then awaits the     *)
(* task handles in order.                                                  *)
(*                                                                         *)
(* A connection is two FIFO byte streams and the state of the TCP link.  *)
(* When the SUT closes, the link is "rst" if it left bytes unread, and     *)
(* "fin" or, for an abortive close, "rst" otherwise; a write on a "fin"    *)
(* link succeeds and may draw a reset.  Reads on a drained "fin" link     *)
(* return UnexpectedEof; reads and writes on a reset link fail with        *)
(* ConnectionReset or BrokenPipe.                                          *)
(***************************************************************************)
EXTENDS Integers, Sequences, FiniteSets

CONSTANTS
    Tests,         \* the tests run: a subset of {"001", "002", "003", "004", "006"}
    NumMessages,   \* test messages, one connection each
    Reactions      \* the reactions the SUT may have, per connection

Conns == 1 .. NumMessages

\* The connections a test opens: one per test message in 003 and 004.
TestConns(t) == IF t \in {"003", "004"} THEN Conns ELSE {1}

\* The reactions a conforming SUT may have.  "none": the test sends
\* nothing to reject.  A Version reusing the SUT's nonce must end the
\* connection (006, lines 281-286).
ValidReactions(t) ==
    CASE t \in {"001", "002"} -> {"none"}
      [] t = "006" -> {"terminate"}
      [] OTHER -> {"ignore", "terminate"}

\* The reactions the SUT may have in test t.  In 006 an ignoring SUT never
\* writes again and the filtered read blocks for ever, as with an
\* unresponsive SUT (see MCHandshakeUnresponsive.cfg); it is left out.
ReactionsOf(t) ==
    CASE t \in {"001", "002"} -> {"none"}
      [] t = "006" -> Reactions \ {"ignore"}
      [] OTHER -> Reactions

VARIABLES
    test,          \* the test being run
    reaction,      \* the SUT's reaction on each connection
    tpc,           \* the test's position in its script per connection
    result,        \* "running", "done" or "failed" per connection
    link,          \* "none", "open", "fin" or "rst"
    toSut,         \* bytes the test wrote and the SUT has not yet read
    fromSut,       \* bytes the SUT wrote and the test has not yet read
    sutVersion,    \* the SUT has sent its Version
    sutOwesReply,  \* a late-replying SUT has a reply queued for later
    sutAlive       \* the SUT still processes this connection

vars == <<test, reaction, tpc, result, link, toSut, fromSut, sutVersion, sutOwesReply, sutAlive>>

-----------------------------------------------------------------------------
(* The test scripts                                                        *)

\* Mutant of Script003: (4) read before (3) is sent.
Script003Swapped == <<"connect", "write_msg", "read_version", "write_version", "read_verack">>

\* Test 003, lines 243-272: (1) connect, (2) send the message, (3) send
\* Version, (4) read Version, (5) read Verack.
Script003 == <<"connect", "write_msg", "write_version", "read_version", "read_verack">>

\* Test 004, lines 151-176: accept the SUT's connection, (1) read its
\* Version (unwrap), (2) send the message, (3) send Version, (4) read Verack.
Script004 == <<"accept", "read_version_unwrap", "write_msg", "write_version", "read_verack">>

\* Test 001, lines 22-39: connect, send Version, read Version, send
\* Verack, read Verack, unwrapping every result.
Script001 == <<"connect", "write_version_unwrap", "read_version_unwrap", "write_verack", "read_verack_unwrap">>

\* Test 002, lines 55-71: accept the SUT's connection, read its Version,
\* send Version, read Verack, send Verack, unwrapping every result.
Script002 == <<"accept", "read_version_unwrap", "write_version_unwrap", "read_verack_unwrap", "write_verack">>

\* Test 006, lines 296-322: accept, read the SUT's Version (unwrap), send
\* a Version with its nonce (unwrap), read through the filter.
Script006 == <<"accept", "read_version_unwrap", "write_msg", "read_filtered">>

Script ==
    CASE test = "001" -> Script001
      [] test = "002" -> Script002
      [] test = "003" -> Script003
      [] test = "006" -> Script006
      [] OTHER -> Script004

\* The script step connection i is at.
Step(i) == IF result[i] = "running" THEN Script[tpc[i]] ELSE "none"

\* The message a read step asserts it gets.
Expected(step) == IF step \in {"read_verack", "read_verack_unwrap"} THEN "Verack" ELSE "Version"

\* The steps that unwrap a read: an error panics.
UnwrapReads == {"read_version_unwrap", "read_verack_unwrap"}

\* Mutant of IsTerminationError: UnexpectedEof not counted as termination.
IsTerminationErrorNoEof(kind) ==
    kind \in {"ConnectionReset", "ConnectionAborted", "BrokenPipe"}

\* is_termination_error (lines 327-335).
IsTerminationError(kind) ==
    kind \in {"ConnectionReset", "ConnectionAborted", "BrokenPipe", "UnexpectedEof"}

Init ==
    /\ test \in Tests
    /\ reaction \in [Conns -> ReactionsOf(test)]
    /\ tpc = [i \in Conns |-> 1]
    /\ result = [i \in Conns |-> IF i \in TestConns(test) THEN "running" ELSE "unused"]
    /\ link = [i \in Conns |-> "none"]
    /\ toSut = [i \in Conns |-> <<>>]
    /\ fromSut = [i \in Conns |-> <<>>]
    /\ sutVersion = [i \in Conns |-> FALSE]
    /\ sutOwesReply = [i \in Conns |-> FALSE]
    /\ sutAlive = [i \in Conns |-> TRUE]

Advance(i) == tpc' = [tpc EXCEPT ![i] = @ + 1] /\ UNCHANGED result
Finish(i, verdict) == result' = [result EXCEPT ![i] = verdict] /\ UNCHANGED tpc

\* After a successful step: the next statement, or the end of the task.
Proceed(i) == IF tpc[i] = Len(Script) THEN Finish(i, "done") ELSE Advance(i)

\* What the test's steps leave alone: which test runs and the SUT's state.
sutVars == <<test, reaction, sutVersion, sutOwesReply, sutAlive>>

\* Tests 001 and 003 connect to the SUT; 003 once the previous message is done
\* (`continue` included); the SUT accepts.
Connect(i) ==
    /\ Step(i) = "connect"
    /\ \A j \in 1 .. i - 1 : result[j] = "done"
    /\ link' = [link EXCEPT ![i] = "open"]
    /\ Advance(i)
    /\ UNCHANGED <<toSut, fromSut, sutVars>>

\* Tests 002, 004 (a task per connection) and 006 accept the connection
\* the SUT dialled.
Accept(i) ==
    /\ Step(i) = "accept"
    /\ link[i] = "open"
    /\ Advance(i)
    /\ UNCHANGED <<link, toSut, fromSut, sutVars>>

\* Write the message to reject and unwrap (003 line 248, 004 line 159,
\* 006 lines 303-308).  It is the first thing the test writes, so the SUT,
\* which closes only after reading it, has not closed yet.
WriteMsg(i) ==
    /\ Step(i) = "write_msg"
    /\ link[i] = "open"
    /\ toSut' = [toSut EXCEPT ![i] = Append(@, "Msg")]
    /\ Advance(i)
    /\ UNCHANGED <<link, fromSut, sutVars>>

\* The handshake message a write step sends.
Written(step) == IF step = "write_verack" THEN "Verack" ELSE "Version"

\* Write Version or Verack.  In 003 and 004 (step (3)) a termination
\* error ends this message's check (003 lines 251-258 `continue`, 004
\* lines 162-169 `return`), any other error panics; 001 (lines 25-36) and
\* 002 (lines 60-71) unwrap.
WriteVersion(i) ==
    /\ Step(i) \in {"write_version", "write_version_unwrap", "write_verack"}
    /\ \/ /\ link[i] = "open"
          /\ toSut' = [toSut EXCEPT ![i] = Append(@, Written(Step(i)))]
          /\ Proceed(i) /\ UNCHANGED link
       \/ /\ link[i] = "fin"
          /\ \E l \in {"fin", "rst"} : link' = [link EXCEPT ![i] = l]
          /\ Proceed(i) /\ UNCHANGED toSut
       \/ /\ link[i] = "rst"
          /\ \E kind \in {"BrokenPipe", "ConnectionReset"} :
                Finish(i, IF Step(i) = "write_version" /\ IsTerminationError(kind)
                          THEN "done" ELSE "failed")
          /\ UNCHANGED <<link, toSut>>
    /\ UNCHANGED <<fromSut, sutVars>>

\* The outcome of Message::read_from_stream on connection i: the next
\* message, or the error of a closed link; none while the link is open
\* and nothing has arrived (the read blocks: there is no timeout).
ReadResults(i) ==
    CASE fromSut[i] # <<>> /\ link[i] \in {"open", "fin"} ->
            {[ok |-> TRUE, msg |-> Head(fromSut[i])]}
      [] fromSut[i] = <<>> /\ link[i] = "fin" ->
            {[ok |-> FALSE, kind |-> "UnexpectedEof"]}
      [] link[i] = "rst" ->
            {[ok |-> FALSE, kind |-> "ConnectionReset"]}
      [] OTHER -> {}

\* Mutant of Read: the received message is not checked.
ReadAcceptsAny(i) ==
    /\ Step(i) \in {"read_version", "read_verack"} \cup UnwrapReads
    /\ \E r \in ReadResults(i) :
         /\ fromSut' = IF r.ok THEN [fromSut EXCEPT ![i] = Tail(@)] ELSE fromSut
         /\ IF r.ok
            THEN Proceed(i)
            ELSE Finish(i, IF Step(i) \notin UnwrapReads /\ IsTerminationError(r.kind)
                           THEN "done" ELSE "failed")
    /\ UNCHANGED <<link, toSut, sutVars>>

\* The read steps: `assert!(matches!(message, ...))` on Ok (003 lines
\* 261-272, 004 lines 155-156 and 172-176); a termination error ends the
\* message's check except in the reads that unwrap (001 lines 30 and 38,
\* 002 lines 57 and 65, 004 line 155, 006 line 298).
Read(i) ==
    /\ Step(i) \in {"read_version", "read_verack"} \cup UnwrapReads
    /\ \E r \in ReadResults(i) :
         /\ fromSut' = IF r.ok THEN [fromSut EXCEPT ![i] = Tail(@)] ELSE fromSut
         /\ IF r.ok
            THEN IF r.msg # Expected(Step(i)) THEN Finish(i, "failed")
                 ELSE Proceed(i)
            ELSE Finish(i, IF Step(i) \notin UnwrapReads /\ IsTerminationError(r.kind)
                           THEN "done" ELSE "failed")
    /\ UNCHANGED <<link, toSut, sutVars>>

\* Test 006's filtered read (lines 312-322): Ping and GetHeaders, which
\* the SUT may send eagerly, are skipped; a termination error passes; any
\* other message or error panics.
ReadFiltered(i) ==
    /\ Step(i) = "read_filtered"
    /\ \E r \in ReadResults(i) :
         /\ fromSut' = IF r.ok THEN [fromSut EXCEPT ![i] = Tail(@)] ELSE fromSut
         /\ IF r.ok
            THEN IF r.msg \in {"Ping", "GetHeaders"} THEN UNCHANGED <<tpc, result>>
                 ELSE Finish(i, "failed")
            ELSE Finish(i, IF IsTerminationError(r.kind) THEN "done" ELSE "failed")
    /\ UNCHANGED <<link, toSut, sutVars>>

-----------------------------------------------------------------------------
(* The SUT                                                                 *)

\* In tests 002, 004 and 006 the SUT dials each listener among its
\* initial peers and sends its Version first.
SutDial(i) ==
    /\ test \in {"002", "004", "006"} /\ i \in TestConns(test) /\ link[i] = "none"
    /\ link' = [link EXCEPT ![i] = "open"]
    /\ fromSut' = [fromSut EXCEPT ![i] = <<"Version">>]
    /\ sutVersion' = [sutVersion EXCEPT ![i] = TRUE]
    /\ UNCHANGED <<test, reaction, tpc, result, toSut, sutOwesReply, sutAlive>>

\* The SUT handles the next message on connection i.  Version: it answers
\* with its Version (unless sent) and Verack, then any reply it deferred.
\* Verack: the handshake is complete.  The message to reject: its
\* reaction; a terminating SUT that got a Version reusing its nonce may
\* first send Ping and GetHeaders, as the comment of 006 reports of zcashd
\* (lines 310-311).
SutReceive(i) ==
    /\ sutAlive[i] /\ link[i] = "open" /\ toSut[i] # <<>>
    /\ toSut' = [toSut EXCEPT ![i] = Tail(@)]
    /\ IF Head(toSut[i]) = "Version"
       THEN /\ fromSut' = [fromSut EXCEPT ![i] =
                 @ \o (IF sutVersion[i] THEN <<>> ELSE <<"Version">>) \o <<"Verack">>
                   \o (IF sutOwesReply[i] THEN <<"Reply">> ELSE <<>>)]
            /\ sutVersion' = [sutVersion EXCEPT ![i] = TRUE]
            /\ sutOwesReply' = [sutOwesReply EXCEPT ![i] = FALSE]
            /\ UNCHANGED <<link, sutAlive>>
       ELSE IF Head(toSut[i]) = "Verack"
       THEN UNCHANGED <<link, fromSut, sutVersion, sutOwesReply, sutAlive>>
       ELSE /\ CASE reaction[i] = "ignore" ->
                      UNCHANGED <<link, fromSut, sutOwesReply, sutAlive>>
                 [] reaction[i] = "terminate" ->
                      /\ \E l \in IF Tail(toSut[i]) = <<>> THEN {"fin", "rst"} ELSE {"rst"} :
                            link' = [link EXCEPT ![i] = l]
                      /\ \E eager \in IF test = "006" THEN {<<>>, <<"Ping", "GetHeaders">>} ELSE {<<>>} :
                            fromSut' = [fromSut EXCEPT ![i] = @ \o eager]
                      /\ UNCHANGED <<sutOwesReply, sutAlive>>
                 [] reaction[i] = "respond" ->
                      /\ fromSut' = [fromSut EXCEPT ![i] = Append(@, "Reply")]
                      /\ UNCHANGED <<link, sutOwesReply, sutAlive>>
                 [] reaction[i] = "respond_late" ->
                      /\ sutOwesReply' = [sutOwesReply EXCEPT ![i] = TRUE]
                      /\ UNCHANGED <<link, fromSut, sutAlive>>
                 [] reaction[i] = "unresponsive" ->
                      /\ sutAlive' = [sutAlive EXCEPT ![i] = FALSE]
                      /\ UNCHANGED <<link, fromSut, sutOwesReply>>
            /\ UNCHANGED sutVersion
    /\ UNCHANGED <<test, reaction, tpc, result>>

TestStep(i) ==
    Connect(i) \/ Accept(i) \/ WriteMsg(i) \/ WriteVersion(i) \/ Read(i) \/ ReadFiltered(i)
SutStep(i) == SutDial(i) \/ SutReceive(i)

Next == \E i \in Conns : TestStep(i) \/ SutStep(i)

\* Each test step is the next statement of a running task, and a live SUT
\* keeps reading its sockets.
Fairness == \A i \in Conns : WF_vars(TestStep(i)) /\ WF_vars(SutStep(i))

Spec == Init /\ [][Next]_vars /\ Fairness

\* The test's verdict: the handles are awaited in order (004 lines
\* 182-184; 003 stops at its first panic), so the first connection not done
\* decides.
Outcome ==
    LET pending == {i \in TestConns(test) : result[i] # "done"} IN
    IF pending = {} THEN "pass"
    ELSE IF result[CHOOSE i \in pending : \A j \in pending : i <= j] = "failed"
         THEN "fail" ELSE "running"

-----------------------------------------------------------------------------
(* Properties                                                              *)

\* A test fails a connection only when the SUT's reaction there was not a
\* valid one ((a) ignore or (b) terminate; in 006 terminate), whatever the
\* timing of a termination, or of the SUT's eager messages, relative to
\* the test's writes and reads; 001 and 002 never fail a conforming SUT.
NoFalseFailure ==
    \A i \in Conns : result[i] = "failed" => reaction[i] \notin ValidReactions(test)

\* A test passes only against a SUT whose reaction was valid on every
\* connection: a SUT that responded to the message to reject is caught.
PassImpliesConforming ==
    Outcome = "pass" => \A i \in TestConns(test) : reaction[i] \in ValidReactions(test)

\* The test reaches a verdict.
TestEnds == <>(Outcome # "running")

=============================================================================
