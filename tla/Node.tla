-------------------------------- MODULE Node --------------------------------
(***************************************************************************)
(* The node supervisor, src/setup/node.rs: a test's `Node` handle, the SUT  *)
(* process it spawns, the temporary synthetic node it uses for the initial *)
(* action, and the SUT's side of the seeding exchange.                     *)
(*                                                                         *)
(* The test thread runs start(), then the test body, then stop() and       *)
(* finally Drop (which calls stop() again); a panic or an Err that the     *)
(* test unwraps goes straight to Drop.  Every fallible call (`?`) is a     *)
(* step that may fail when the corresponding *MayFail constant allows it.  *)
(* The SUT is an environment process: it connects to the synthetic node,   *)
(* asks for headers and blocks the way zcashd does, answers pings in order *)
(* and may exit on its own.  Messages between the two travel over one TCP  *)
(* connection: FIFO in each direction.                                     *)
(***************************************************************************)
EXTENDS Integers, Sequences

CONSTANTS
    Kinds,             \* NodeKinds the SUT may be: "zcashd", "zebra"
    InitialActions,    \* Actions the test may set: [kind, n], kind "None",
                       \* "WaitForConnection" or "Seed" (SeedWithTestnetBlocks(n))
    NumTestnetBlocks,  \* blocks in Block::initial_testnet_blocks(), genesis included
    IoMayFail,         \* file removal, config writing, binding and spawning may fail
    ProcMayFail,       \* Child::try_wait and Child::kill may fail
    SutMayExit         \* the SUT process may exit or crash on its own

ASSUME Kinds \subseteq {"zcashd", "zebra"}
ASSUME \A a \in InitialActions : a.kind \in {"None", "WaitForConnection", "Seed"}
ASSUME {IoMayFail, ProcMayFail, SutMayExit} \subseteq BOOLEAN

VARIABLES
    kind,         \* self.meta.kind
    action,       \* self.config.initial_action
    phase,        \* where the test thread is
    inDrop,       \* the running stop() was called from Drop
    startResult,  \* what start() returned: "none", "ok", "err" or "panic"
    stopResult,   \* what the last stop() returned: "none", "ok" or "err"
    process,      \* self.process is Some(child)
    crashed,      \* stop(): the local `crashed` (None, "success" or "crash")
    sutProc,      \* the OS state of the spawned SUT process
    exitedOnOwn,  \* history: the SUT exited before stop() inspected it
    ioFailed,     \* history: a file, socket or spawn operation has failed
    configFile,   \* the SUT's config file exists
    cacheDir,     \* ~/.zcash/testnet3 exists
    synth,        \* the temporary synthetic node: "none", "listening", "shut_down"
    sut,          \* the SUT's seeding progress
    sutBlocks,    \* blocks the SUT holds, genesis included
    toSut,        \* messages in flight from the synthetic node to the SUT
    fromSut       \* messages the synthetic node forwards to the test (filter Disabled)

vars == <<kind, action, phase, inDrop, startResult, stopResult, process, crashed, sutProc,
          exitedOnOwn, ioFailed, configFile, cacheDir, synth, sut, sutBlocks, toSut, fromSut>>

\* Mutant of SeedBlockCount: the `skip(1)` dropped, so genesis is counted
\* among the blocks sent.
SeedBlockCountTake(n) == IF n < NumTestnetBlocks THEN n ELSE NumTestnetBlocks

\* Block::initial_testnet_blocks().into_iter().take(n).skip(1): the blocks
\* sent, genesis excluded (node.rs:183-187).
SeedBlockCount(n) ==
    LET taken == IF n < NumTestnetBlocks THEN n ELSE NumTestnetBlocks
    IN IF taken > 1 THEN taken - 1 ELSE 0

Msg == [cmd : {"GetHeaders", "Headers", "GetData", "Block", "Ping", "Pong"},
        n : 0 .. NumTestnetBlocks]
M(cmd, n) == [cmd |-> cmd, n |-> n]

TypeOK ==
    /\ kind \in Kinds /\ action \in InitialActions
    /\ phase \in {"new", "start_synthetic", "start_config", "start_spawn",
                  "initial_action", "seed_headers", "seed_getdata", "seed_ping",
                  "seed_pong", "test_body", "stop_trywait", "stop_kill",
                  "stop_cleanup", "drop", "dropped"}
    /\ inDrop \in BOOLEAN
    /\ startResult \in {"none", "ok", "err", "panic"}
    /\ stopResult \in {"none", "ok", "err"}
    /\ process \in BOOLEAN
    /\ crashed \in {"none", "success", "crash"}
    /\ sutProc \in {"unspawned", "running", "exited_ok", "crashed", "killed"}
    /\ exitedOnOwn \in BOOLEAN /\ ioFailed \in BOOLEAN
    /\ configFile \in BOOLEAN /\ cacheDir \in BOOLEAN
    /\ synth \in {"none", "listening", "shut_down"}
    /\ sut \in {"down", "connected", "awaiting_headers", "awaiting_blocks", "synced"}
    /\ sutBlocks \in 1 .. NumTestnetBlocks
    /\ toSut \in Seq(Msg) /\ fromSut \in Seq(Msg)

\* A previous run may have left a config file and a zcashd cache behind.
Init ==
    /\ kind \in Kinds
    /\ action \in InitialActions
    /\ phase = "new"
    /\ inDrop = FALSE
    /\ startResult = "none"
    /\ stopResult = "none"
    /\ process = FALSE
    /\ crashed = "none"
    /\ sutProc = "unspawned"
    /\ exitedOnOwn = FALSE
    /\ ioFailed = FALSE
    /\ configFile \in BOOLEAN
    /\ cacheDir \in BOOLEAN
    /\ synth = "none"
    /\ sut = "down"
    /\ sutBlocks = 1
    /\ toSut = <<>>
    /\ fromSut = <<>>

-----------------------------------------------------------------------------
(* The test thread: start() (node.rs:113-164)                              *)

\* A file, socket or process operation returns an error.
IoFails == IoMayFail /\ ioFailed' = TRUE

\* Node::cleanup (node.rs:295-325): remove the config file, then for zcashd
\* the cache directory; NotFound is suppressed, any other error returned.
CleanupOk ==
    /\ configFile' = FALSE
    /\ cacheDir' = IF kind = "zcashd" THEN FALSE ELSE cacheDir
    /\ UNCHANGED ioFailed
CleanupFails ==
    /\ IoFails
    /\ \/ configFile /\ UNCHANGED <<configFile, cacheDir>>
       \/ kind = "zcashd" /\ cacheDir /\ configFile' = FALSE /\ UNCHANGED cacheDir

\* start() returns Err (or a call in it panics); the test's unwrap panics
\* and the Node is dropped.
StartFails(result) ==
    /\ startResult' = result
    /\ phase' = "drop"

StartCleanup ==
    /\ phase = "new"
    /\ \/ /\ CleanupOk
          /\ phase' = IF action.kind = "None" THEN "start_config" ELSE "start_synthetic"
          /\ UNCHANGED startResult
       \/ CleanupFails /\ StartFails("err")
    /\ UNCHANGED <<kind, action, inDrop, stopResult, process, crashed, sutProc,
                   exitedOnOwn, synth, sut, sutBlocks, toSut, fromSut>>

\* Build the synthetic node and add its address to the initial peers
\* (node.rs:118-138); building binds a listener and may fail.
StartSynthetic ==
    /\ phase = "start_synthetic"
    /\ \/ synth' = "listening" /\ phase' = "start_config" /\ UNCHANGED <<startResult, ioFailed>>
       \/ IoFails /\ StartFails("err") /\ UNCHANGED synth
    /\ UNCHANGED <<kind, action, inDrop, stopResult, process, crashed, sutProc,
                   exitedOnOwn, configFile, cacheDir, sut, sutBlocks, toSut, fromSut>>

\* generate_config_file: render the file (for zebra this may fail) and
\* fs::write it; either failure is an Err.  The contents are abstracted.
GenerateConfigFile == configFile' = TRUE

\* self.generate_config_file()? (node.rs:141).
StartConfig ==
    /\ phase = "start_config"
    /\ \/ GenerateConfigFile /\ phase' = "start_spawn" /\ UNCHANGED <<startResult, ioFailed>>
       \/ IoFails /\ StartFails("err") /\ UNCHANGED configFile
    /\ UNCHANGED <<kind, action, inDrop, stopResult, process, crashed, sutProc,
                   exitedOnOwn, cacheDir, synth, sut, sutBlocks, toSut, fromSut>>

\* Spawn the SUT (`.expect("node failed to start")` panics on failure) and
\* store the child; with Action::None start() returns at once
\* (node.rs:148-163).
StartSpawn ==
    /\ phase = "start_spawn"
    /\ \/ /\ process' = TRUE
          /\ sutProc' = "running"
          /\ IF action.kind = "None"
             THEN startResult' = "ok" /\ phase' = "test_body"
             ELSE phase' = "initial_action" /\ UNCHANGED startResult
          /\ UNCHANGED ioFailed
       \/ IoFails /\ StartFails("panic") /\ UNCHANGED <<process, sutProc>>
    /\ UNCHANGED <<kind, action, inDrop, stopResult, crashed, exitedOnOwn,
                   configFile, cacheDir, synth, sut, sutBlocks, toSut, fromSut>>

-----------------------------------------------------------------------------
(* perform_initial_action (node.rs:166-250)                                *)

\* Nothing more can reach the test from the SUT unless the test sends
\* something: the SUT is gone, or connected with nothing left to answer.
\* recv_message_timeout and wait_until! give up only then; a SUT slower
\* than TIMEOUT is not modelled.
SutQuiet ==
    ~(sutProc = "running" /\ (sut \in {"down", "connected"} \/ toSut # <<>>))

\* The action completed: shut the synthetic node down, start() returns Ok
\* (node.rs:246-249, 160-163).
InitialActionDone ==
    /\ synth' = "shut_down"
    /\ startResult' = "ok"
    /\ phase' = "test_body"

\* A `?` or an explicit Err in perform_initial_action: start() returns Err
\* and the synthetic node is dropped without shut_down.
InitialActionErr == StartFails("err") /\ UNCHANGED synth

\* Mutant of InitialActionStart: WaitForConnection polls without a
\* deadline, so a SUT that never connects blocks start() forever.
InitialActionStartNoTimeout ==
    /\ phase = "initial_action"
    /\ \/ /\ action.kind = "WaitForConnection"
          /\ sut # "down" /\ InitialActionDone
       \/ /\ action.kind = "Seed" /\ kind = "zebra"
          /\ StartFails("panic") /\ UNCHANGED synth
       \/ /\ action.kind = "Seed" /\ kind = "zcashd"
          /\ phase' = "seed_headers" /\ UNCHANGED <<startResult, synth>>
    /\ UNCHANGED <<kind, action, inDrop, stopResult, process, crashed, sutProc,
                   exitedOnOwn, ioFailed, configFile, cacheDir, sut, sutBlocks, toSut, fromSut>>

\* WaitForConnection: wait_until!(TIMEOUT, num_connected() == 1), which
\* panics when the time runs out (node.rs:171-174); Seed on zebra hits
\* unimplemented! (node.rs:175-177); Seed on zcashd goes on to the exchange.
InitialActionStart ==
    /\ phase = "initial_action"
    /\ \/ /\ action.kind = "WaitForConnection"
          /\ \/ sut # "down" /\ InitialActionDone
             \/ sut = "down" /\ SutQuiet /\ StartFails("panic") /\ UNCHANGED synth
       \/ /\ action.kind = "Seed" /\ kind = "zebra"
          /\ StartFails("panic") /\ UNCHANGED synth
       \/ /\ action.kind = "Seed" /\ kind = "zcashd"
          /\ phase' = "seed_headers" /\ UNCHANGED <<startResult, synth>>
    /\ UNCHANGED <<kind, action, inDrop, stopResult, process, crashed, sutProc,
                   exitedOnOwn, ioFailed, configFile, cacheDir, sut, sutBlocks, toSut, fromSut>>

\* Await GetHeaders; assert its locator is [genesis] (the SUT has no block
\* beyond genesis) and reply with the headers of the seeded blocks
\* (node.rs:189-215).
SeedHeaders ==
    /\ phase = "seed_headers"
    /\ \/ /\ fromSut # <<>> /\ Head(fromSut).cmd = "GetHeaders"
          /\ fromSut' = Tail(fromSut)
          /\ IF Head(fromSut).n = 1
             THEN /\ toSut' = Append(toSut, M("Headers", SeedBlockCount(action.n)))
                  /\ phase' = "seed_getdata" /\ UNCHANGED <<startResult, synth>>
             ELSE StartFails("panic") /\ UNCHANGED <<toSut, synth>>
       \/ fromSut # <<>> /\ Head(fromSut).cmd # "GetHeaders"
          /\ InitialActionErr /\ UNCHANGED <<toSut, fromSut>>
       \/ fromSut = <<>> /\ SutQuiet /\ InitialActionErr /\ UNCHANGED <<toSut, fromSut>>
    /\ UNCHANGED <<kind, action, inDrop, stopResult, process, crashed, sutProc,
                   exitedOnOwn, ioFailed, configFile, cacheDir, sut, sutBlocks>>

\* Mutant of SeedGetData: the GetData compared with SeedWithTestnetBlocks'
\* n rather than with the n - 1 blocks the Headers announced.
SeedGetDataExpectN ==
    /\ phase = "seed_getdata"
    /\ \/ /\ fromSut # <<>> /\ Head(fromSut).cmd = "GetData"
          /\ fromSut' = Tail(fromSut)
          /\ IF Head(fromSut).n = action.n
             THEN /\ toSut' = toSut \o [i \in 1 .. Head(fromSut).n |-> M("Block", 0)]
                  /\ phase' = "seed_ping" /\ UNCHANGED <<startResult, synth>>
             ELSE StartFails("panic") /\ UNCHANGED <<toSut, synth>>
       \/ fromSut # <<>> /\ Head(fromSut).cmd # "GetData"
          /\ InitialActionErr /\ UNCHANGED <<toSut, fromSut>>
       \/ fromSut = <<>> /\ SutQuiet /\ InitialActionErr /\ UNCHANGED <<toSut, fromSut>>
    /\ UNCHANGED <<kind, action, inDrop, stopResult, process, crashed, sutProc,
                   exitedOnOwn, ioFailed, configFile, cacheDir, sut, sutBlocks>>

\* Await GetData; assert it asks for exactly the seeded blocks and send
\* them, in order (node.rs:217-239).
SeedGetData ==
    /\ phase = "seed_getdata"
    /\ \/ /\ fromSut # <<>> /\ Head(fromSut).cmd = "GetData"
          /\ fromSut' = Tail(fromSut)
          /\ IF Head(fromSut).n = SeedBlockCount(action.n)
             THEN /\ toSut' = toSut \o [i \in 1 .. Head(fromSut).n |-> M("Block", 0)]
                  /\ phase' = "seed_ping" /\ UNCHANGED <<startResult, synth>>
             ELSE StartFails("panic") /\ UNCHANGED <<toSut, synth>>
       \/ fromSut # <<>> /\ Head(fromSut).cmd # "GetData"
          /\ InitialActionErr /\ UNCHANGED <<toSut, fromSut>>
       \/ fromSut = <<>> /\ SutQuiet /\ InitialActionErr /\ UNCHANGED <<toSut, fromSut>>
    /\ UNCHANGED <<kind, action, inDrop, stopResult, process, crashed, sutProc,
                   exitedOnOwn, ioFailed, configFile, cacheDir, sut, sutBlocks>>

\* Mutant of SeedPing: the synthetic node shut down right after the blocks
\* are sent, without the ping/pong round trip.
SeedPingSkipped ==
    /\ phase = "seed_ping"
    /\ InitialActionDone
    /\ UNCHANGED <<kind, action, inDrop, stopResult, process, crashed, sutProc,
                   exitedOnOwn, ioFailed, configFile, cacheDir, sut, sutBlocks, toSut, fromSut>>

\* ping_pong_timeout, first half: send a Ping behind the blocks (node.rs:242).
SeedPing ==
    /\ phase = "seed_ping"
    /\ toSut' = Append(toSut, M("Ping", 0))
    /\ phase' = "seed_pong"
    /\ UNCHANGED <<kind, action, inDrop, startResult, stopResult, process, crashed,
                   sutProc, exitedOnOwn, ioFailed, configFile, cacheDir, synth, sut,
                   sutBlocks, fromSut>>

\* ping_pong_timeout, second half: the matching Pong completes the action;
\* any other message first, or silence, is an Err (node.rs:242).
SeedPong ==
    /\ phase = "seed_pong"
    /\ \/ fromSut # <<>> /\ Head(fromSut).cmd = "Pong"
          /\ fromSut' = Tail(fromSut) /\ InitialActionDone
       \/ fromSut # <<>> /\ Head(fromSut).cmd # "Pong"
          /\ InitialActionErr /\ UNCHANGED fromSut
       \/ fromSut = <<>> /\ SutQuiet /\ InitialActionErr /\ UNCHANGED fromSut
    /\ UNCHANGED <<kind, action, inDrop, stopResult, process, crashed, sutProc,
                   exitedOnOwn, ioFailed, configFile, cacheDir, sut, sutBlocks, toSut>>

-----------------------------------------------------------------------------
(* The test body, stop() (node.rs:256-282) and Drop (node.rs:328-335)      *)

\* After start() returned Ok the test calls node.stop(), or panics first.
TestBody ==
    /\ phase = "test_body"
    /\ phase' \in {"stop_trywait", "drop"}
    /\ UNCHANGED <<kind, action, inDrop, startResult, stopResult, process, crashed,
                   sutProc, exitedOnOwn, ioFailed, configFile, cacheDir, synth, sut,
                   sutBlocks, toSut, fromSut>>

\* Mutant of Drop: a Drop that does not stop the node.
DropWithoutStop ==
    /\ phase = "drop"
    /\ phase' = "dropped"
    /\ UNCHANGED <<kind, action, inDrop, startResult, stopResult, process, crashed,
                   sutProc, exitedOnOwn, ioFailed, configFile, cacheDir, synth, sut,
                   sutBlocks, toSut, fromSut>>

\* Drop::drop calls stop() and only logs its error.
Drop ==
    /\ phase = "drop"
    /\ phase' = "stop_trywait"
    /\ inDrop' = TRUE
    /\ UNCHANGED <<kind, action, startResult, stopResult, process, crashed, sutProc,
                   exitedOnOwn, ioFailed, configFile, cacheDir, synth, sut, sutBlocks,
                   toSut, fromSut>>

\* stop() returns; after an explicit stop() the test ends (or unwraps an
\* Err and panics) and the Node is dropped.
StopReturns(result) ==
    /\ stopResult' = result
    /\ phase' = IF inDrop THEN "dropped" ELSE "drop"

\* Mutant of CrashedOf: a successful exit taken for a running node.
CrashedOfIgnoringSuccess(st) == IF st = "crashed" THEN "crash" ELSE "none"

\* The match on child.try_wait() (node.rs:260-269): still running (None),
\* exited with success, or exited otherwise.
CrashedOf(st) ==
    CASE st = "exited_ok" -> "success"
      [] st = "crashed"   -> "crash"
      [] OTHER            -> "none"

\* `self.process.take()`, then child.try_wait()? (node.rs:257-260).  An
\* error returns at once, dropping the Child without killing it.
StopTryWait ==
    /\ phase = "stop_trywait"
    /\ \/ ~process /\ StopReturns("ok") /\ UNCHANGED crashed
       \/ /\ process
          /\ \/ ProcMayFail /\ StopReturns("err") /\ UNCHANGED crashed
             \/ /\ crashed' = CrashedOf(sutProc)
                /\ phase' = IF sutProc = "running" THEN "stop_kill" ELSE "stop_cleanup"
                /\ UNCHANGED stopResult
    /\ process' = FALSE
    /\ UNCHANGED <<kind, action, inDrop, startResult, sutProc, exitedOnOwn, ioFailed,
                   configFile, cacheDir, synth, sut, sutBlocks, toSut, fromSut>>

\* child.kill()? (node.rs:262): the process is gone afterwards, unless it
\* had already exited; an error returns at once.
StopKill ==
    /\ phase = "stop_kill"
    /\ \/ ProcMayFail /\ StopReturns("err") /\ UNCHANGED sutProc
       \/ /\ sutProc' = IF sutProc = "running" THEN "killed" ELSE sutProc
          /\ phase' = "stop_cleanup" /\ UNCHANGED stopResult
    /\ UNCHANGED <<kind, action, inDrop, startResult, process, crashed, exitedOnOwn, ioFailed,
                   configFile, cacheDir, synth, sut, sutBlocks, toSut, fromSut>>

\* self.cleanup()? then the crash report (node.rs:271-278).
StopCleanup ==
    /\ phase = "stop_cleanup"
    /\ \/ CleanupOk /\ StopReturns(IF crashed = "none" THEN "ok" ELSE "err")
       \/ CleanupFails /\ StopReturns("err")
    /\ crashed' = "none"
    /\ UNCHANGED <<kind, action, inDrop, startResult, process, sutProc, exitedOnOwn,
                   synth, sut, sutBlocks, toSut, fromSut>>

-----------------------------------------------------------------------------
(* The SUT (zcashd's side of the exchange), an environment process         *)

sutLocal == <<kind, action, phase, inDrop, startResult, stopResult, process,
              crashed, ioFailed, configFile, synth>>

\* zcashd creates its testnet cache directory once running.
SutWritesCache ==
    /\ sutProc = "running" /\ kind = "zcashd" /\ ~cacheDir
    /\ cacheDir' = TRUE
    /\ UNCHANGED <<sutLocal, sutProc, exitedOnOwn, sut, sutBlocks, toSut, fromSut>>

\* The SUT dials its initial peer, the synthetic node, which handshakes.
SutConnect ==
    /\ sutProc = "running" /\ synth = "listening" /\ sut = "down"
    /\ sut' = "connected"
    /\ UNCHANGED <<sutLocal, sutProc, exitedOnOwn, cacheDir, sutBlocks, toSut, fromSut>>

\* Once connected the SUT asks for headers from its tip (GetHeaders with
\* the locator of its chain, here its length).
SutGetHeaders ==
    /\ sutProc = "running" /\ sut = "connected"
    /\ fromSut' = Append(fromSut, M("GetHeaders", sutBlocks))
    /\ sut' = "awaiting_headers"
    /\ UNCHANGED <<sutLocal, sutProc, exitedOnOwn, cacheDir, sutBlocks, toSut>>

\* The SUT handles the next message from the synthetic node: Headers with
\* new headers makes it request those blocks, Headers without any leaves
\* it synced, a Block extends its chain, a Ping is answered with a Pong.
SutReceive ==
    /\ sutProc = "running" /\ toSut # <<>>
    /\ toSut' = Tail(toSut)
    /\ LET m == Head(toSut) IN
         CASE m.cmd = "Headers" /\ m.n > 0 ->
                 fromSut' = Append(fromSut, M("GetData", m.n))
                 /\ sut' = "awaiting_blocks" /\ UNCHANGED sutBlocks
           [] m.cmd = "Headers" ->
                 sut' = "synced" /\ UNCHANGED <<fromSut, sutBlocks>>
           [] m.cmd = "Block" ->
                 sutBlocks' = sutBlocks + 1 /\ UNCHANGED <<fromSut, sut>>
           [] OTHER ->
                 fromSut' = Append(fromSut, M("Pong", 0)) /\ UNCHANGED <<sut, sutBlocks>>
    /\ UNCHANGED <<sutLocal, sutProc, exitedOnOwn, cacheDir>>

\* The SUT exits on its own, successfully or not.
SutExit ==
    /\ SutMayExit /\ sutProc = "running"
    /\ sutProc' \in {"exited_ok", "crashed"}
    /\ exitedOnOwn' = process
    /\ UNCHANGED <<sutLocal, cacheDir, sut, sutBlocks, toSut, fromSut>>

\* The test process ends once the Node has been dropped.
Done == phase = "dropped" /\ UNCHANGED vars

-----------------------------------------------------------------------------

TestStep ==
    \/ StartCleanup \/ StartSynthetic \/ StartConfig \/ StartSpawn
    \/ InitialActionStart \/ SeedHeaders \/ SeedGetData \/ SeedPing \/ SeedPong
    \/ TestBody \/ Drop \/ StopTryWait \/ StopKill \/ StopCleanup

SutStep ==
    \/ SutWritesCache \/ SutConnect \/ SutGetHeaders \/ SutReceive

Next == TestStep \/ SutStep \/ SutExit \/ Done

\* The test thread runs to completion and a running SUT keeps serving; an
\* exit is not forced.
Fairness == WF_vars(TestStep) /\ WF_vars(SutStep)

Spec == Init /\ [][Next]_vars /\ Fairness

-----------------------------------------------------------------------------
(* Properties                                                              *)

\* The supervisor owns the SUT exclusively: once the Node has been dropped,
\* on the normal path or while unwinding from a failed start() or test, no
\* SUT process it spawned is still running (spec section 3, Lifecycle;
\* node.rs:256-282, 328-335).
NoOrphanedSUT == phase = "dropped" => sutProc # "running"

\* A SUT that exited on its own before stop() inspected it is reported: the
\* stop() that takes the child returns an error, even for a successful
\* exit status (node.rs:260-278).
CrashNotHidden ==
    [][(phase = "stop_cleanup" /\ phase' # "stop_cleanup" /\ exitedOnOwn)
          => stopResult' = "err"]_vars

\* When start() with SeedWithTestnetBlocks(n) returns Ok, the SUT has
\* already processed every seeded block: the ping/pong round trip over the
\* same FIFO connection guarantees it (node.rs:178-243).
SeedingComplete ==
    (startResult = "ok" /\ action.kind = "Seed")
        => sutBlocks = 1 + SeedBlockCount(action.n)

\* The synthetic node start() builds for the initial action is shut down
\* before the SUT is stopped: spec section 4.6 (step 5 of the seeding
\* protocol) and section 3, Lifecycle ("synthetic peers ... are shut down
\* explicitly before the node is stopped").  node.rs:246 is the only
\* shut_down(); the early returns of perform_initial_action and a panic
\* in start() skip it.
SyntheticShutDownBeforeStop ==
    phase \in {"stop_trywait", "stop_kill", "stop_cleanup", "dropped"}
        => synth # "listening"

\* start() fails (returns Err or panics) only because something went
\* wrong around it: a file, socket or spawn operation failed, the SUT
\* exited, or the action is seeding zebra, which is unimplemented!.  The
\* exchange with a SUT that behaves never makes it fail, whatever the
\* order in which the two sides' steps run (node.rs:113-250).
StartFailsOnlyOnFault ==
    startResult \in {"err", "panic"} =>
        \/ ioFailed
        \/ sutProc \in {"exited_ok", "crashed"}
        \/ action.kind = "Seed" /\ kind = "zebra"

\* start() returns, with Ok or an error, even when the SUT dies or never
\* answers: every wait in perform_initial_action is bounded by TIMEOUT
\* (wait_until!, recv_message_timeout, ping_pong_timeout).
StartReturns == <>(startResult # "none")
=============================================================================
