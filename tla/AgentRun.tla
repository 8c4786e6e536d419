------------------------------ MODULE AgentRun ------------------------------
(***************************************************************************)
(* The coding agents of one attempt and the file that records them:        *)
(* CodexRunner.run (app/runners/codex_runner.py), the client of the app    *)
(* server it drives (app/runners/codex_app_server_backend.py), the records *)
(* of app/process_registry.py, and what the bot does with the records:     *)
(* /abort signals them, is_active decides after a restart whether an issue *)
(* In Progress is still worked at.                                         *)
(*                                                                         *)
(* Attempt says what is done with the result of a run; this module says    *)
(* how a run ends.  Every candidate of the attempt is a thread of the bot  *)
(* with a process of its own, first an app server that is asked in JSON    *)
(* and then, if that raises, `codex exec`.  All threads share the one file *)
(* of records, which each reads, changes and writes back.  A process of    *)
(* the app server is in the process group of the bot; `codex exec` has a   *)
(* group of its own.                                                       *)
(***************************************************************************)
EXTENDS Naturals, FiniteSets

CONSTANTS
  Candidates,   \* the candidates of the attempt
  AppServers,   \* whether app_server_command may name a command
  Rollovers,    \* whether the run may go on from an earlier session
  MaxFaults,    \* bound: errors answered, processes that die, long lines
  MaxDeaths     \* bound: deaths of the bot

ASSUME AgentRunAssumption ==
  /\ IsFiniteSet(Candidates) /\ Candidates # {}
  /\ AppServers \in SUBSET BOOLEAN \ {{}} /\ Rollovers \in SUBSET BOOLEAN \ {{}}
  /\ {MaxFaults, MaxDeaths} \subseteq Nat

VARIABLES
  appServer,   \* app_server_command names a command
  rollover,    \* the run goes on from an earlier session, with a handoff
  pc,          \* where the thread of each candidate stands
  mode,        \* which process its call of run drives
  failing,     \* an exception is passing through the finally of the call
  server,      \* the process of the app server
  turn,        \* what the app server has done with the prompt
  heard,       \* what the reader has read of it
  reader,      \* FALSE once a line too long has ended _reader_loop
  exec,        \* the process of codex exec
  result,      \* how the call of run ended
  records,     \* processes/<issue>.json; empty if there is no such file
  copy,        \* what each thread, the abort or the check has read of it
  abort,       \* where abort stands
  check,       \* where is_active stands
  bot,         \* the process of the bot is up
  group,       \* the process group of the bot: as at first, or another
  restarted,   \* the bot has died and come back
  freed,       \* the restarted bot has found nobody at work: Rework
  deaths,      \* what remains of MaxDeaths
  faults,      \* what remains of MaxFaults
  stale        \* history: the file was written from a copy out of date

choice == <<appServer, rollover>>
thread == <<pc, mode, failing, result>>
served == <<server, turn, heard, reader>>
file == <<records, copy, stale>>
life == <<abort, check, bot, group, restarted, freed, deaths>>
vars == <<choice, thread, served, exec, file, life, faults>>

\* Callers of the registry: the threads, the command and the scheduler.
Callers == Candidates \union {"abort", "check"}
Record == [who : Candidates, own : BOOLEAN]
\* The requests a thread waits for without a timeout.
Asking == {"snapshot", "initialize", "thread", "turn", "steer"}

-----------------------------------------------------------------------------
(* The file of records.  Every call reads it, and writes it later.         *)

\* Variant: A process that is not found counts as one that may not be signalled.
AliveUnlessNeverStarted(r) == r.own => exec[r.who] # "none"

\* The group of the record has a process: the group of an app server is the
\* group the bot had, and the bot has again if it is the same after a restart.
Alive(r) ==
  IF r.own THEN exec[r.who] \in {"started", "working"}
           ELSE group = "first" \/ \E c \in Candidates : server[c] = "up"

Reads(p) == copy' = [copy EXCEPT ![p] = records]

\* _write_records and unlink; `stale' remembers that the file had changed.
Writes(p, new) ==
  /\ records' = new
  /\ stale' = (stale \/ records # copy[p])
  /\ copy' = [copy EXCEPT ![p] = {}]

\* Somebody is between its read and its write: it may have truncated the file.
MayBeTorn(p) ==
  \/ \E c \in Candidates \ {p} : pc[c] \in {"recording", "unrecording"}
  \/ check = "testing" /\ \E r \in copy["check"] : ~Alive(r)

-----------------------------------------------------------------------------
(* A call of run, from the side of its thread.                             *)

Goes(c, to) == pc' = [pc EXCEPT ![c] = to]

\* start_run: _boot_client starts the app server and asks it to initialize.
Boots(c) ==
  /\ Goes(c, "initialize")
  /\ mode' = [mode EXCEPT ![c] = "app-server"]
  /\ server' = [server EXCEPT ![c] = "up"]
  /\ turn' = [turn EXCEPT ![c] = "none"]
  /\ heard' = [heard EXCEPT ![c] = "none"]
  /\ reader' = [reader EXCEPT ![c] = TRUE]

\* The call begins.  A handoff first reads the old session from an app server.
Call(c) ==
  /\ bot /\ pc[c] = "ready"
  /\ \/ /\ ~appServer
        /\ Goes(c, "launch") /\ mode' = [mode EXCEPT ![c] = "exec"]
        /\ UNCHANGED served
     \/ appServer /\ ~rollover /\ Boots(c)
     \/ /\ appServer /\ rollover
        /\ Goes(c, "snapshot")
        /\ server' = [server EXCEPT ![c] = "up"]
        /\ reader' = [reader EXCEPT ![c] = TRUE]
        /\ UNCHANGED <<mode, turn, heard>>
  /\ UNCHANGED <<choice, failing, result, exec, file, life, faults>>

\* An exception in a request.  read_session swallows it, and the run goes on
\* without a snapshot; _run_app_server passes it on through its finally.
\* The app server is not stopped by it: `left' is what becomes of its process.
Raises(c, left) ==
  IF pc[c] = "snapshot" THEN Boots(c) /\ UNCHANGED failing
  ELSE /\ Goes(c, "unregister") /\ failing' = [failing EXCEPT ![c] = TRUE]
       /\ server' = [server EXCEPT ![c] = left]
       /\ UNCHANGED <<mode, turn, heard, reader>>

Listening(c) == bot /\ pc[c] \in Asking /\ server[c] = "up" /\ reader[c]

\* The snapshot is read and its app server shut down; the run's own is booted.
SnapshotRead(c) ==
  /\ Listening(c) /\ pc[c] = "snapshot" /\ Boots(c)
  /\ UNCHANGED <<choice, failing, result, exec, file, life, faults>>

\* The request is answered and the thread makes the next one.  A compact start
\* carries the prompt: the answer may name a turn, and then none is started.
Answered(c) ==
  /\ Listening(c)
  /\ \/ pc[c] = "initialize" /\ Goes(c, "thread")
     \/ pc[c] = "thread" /\ turn[c] = "none" /\ Goes(c, "turn")
     \/ pc[c] \in {"thread", "turn"} /\ turn[c] # "none" /\ Goes(c, "register")
     \/ pc[c] = "steer" /\ Goes(c, "collect")
  /\ UNCHANGED <<choice, mode, failing, result, served, exec, file, life, faults>>

\* The answer is an error, or lacks the id that is looked for in it.
Refused(c) ==
  /\ Listening(c) /\ faults > 0 /\ faults' = faults - 1
  /\ Raises(c, "up")
  /\ UNCHANGED <<choice, result, exec, file, life>>

\* Variant: The run is collected and its app server is left running.
CollectsOnly(c) ==
  /\ bot /\ pc[c] = "collect"
  /\ server[c] = "gone" \/ heard[c] = "completed"
  /\ Goes(c, "closing")
  /\ UNCHANGED <<choice, mode, failing, result, served, exec, file, life, faults>>

\* Variant: the wait looks at the turn alone and not at the process.
CollectsReported(c) ==
  /\ bot /\ pc[c] = "collect" /\ heard[c] = "completed"
  /\ Goes(c, "closing")
  /\ server' = [server EXCEPT ![c] = "gone"]
  /\ UNCHANGED <<choice, mode, failing, result, turn, heard, reader, exec, file,
                 life, faults>>

\* _wait_for_completion: the turn is reported or the process has ended; then
\* _shutdown ends the process, by force after a second.
Collects(c) ==
  /\ bot /\ pc[c] = "collect"
  /\ server[c] = "gone" \/ heard[c] = "completed"
  /\ Goes(c, "closing")
  /\ server' = [server EXCEPT ![c] = "gone"]
  /\ UNCHANGED <<choice, mode, failing, result, turn, heard, reader, exec, file,
                 life, faults>>

\* Variant: The result is taken before the reader has come to the end of the output.
DrainedAlready(c) == TRUE

\* _shutdown waits for the reader, which reads to the end of the output; a
\* reader that a long line has ended raises here.
Drained(c) == turn[c] \in {"completed", "failed"} => heard[c] = turn[c]

Closes(c) ==
  /\ bot /\ pc[c] = "closing" /\ Goes(c, "unregister")
  /\ reader[c] => Drained(c)
  /\ failing' = [failing EXCEPT ![c] = ~reader[c]]
  /\ UNCHANGED <<choice, mode, result, served, exec, file, life, faults>>

Returns(c, how) ==
  /\ Goes(c, "done") /\ result' = [result EXCEPT ![c] = how]

\* _run_exec_fallback: Popen, in a session of its own, or there is no codex.
Launches(c) ==
  /\ bot /\ pc[c] = "launch"
  /\ \/ /\ exec' = [exec EXCEPT ![c] = "started"] /\ Goes(c, "register")
        /\ UNCHANGED <<result, faults>>
     \/ /\ faults > 0 /\ faults' = faults - 1
        /\ Returns(c, "raised") /\ UNCHANGED exec
  /\ UNCHANGED <<choice, mode, failing, served, file, life>>

\* The prompt is written; to a process that has ended the write raises.
Prompts(c) ==
  /\ bot /\ pc[c] = "prompt"
  /\ \/ /\ exec[c] = "started" /\ exec' = [exec EXCEPT ![c] = "working"]
        /\ Goes(c, "wait") /\ UNCHANGED failing
     \/ /\ exec[c] = "gone" /\ Goes(c, "unregister")
        /\ failing' = [failing EXCEPT ![c] = TRUE] /\ UNCHANGED exec
  /\ UNCHANGED <<choice, mode, result, served, file, life, faults>>

Waits(c) ==
  /\ bot /\ pc[c] = "wait" /\ exec[c] = "gone" /\ Goes(c, "unregister")
  /\ UNCHANGED <<choice, mode, failing, result, served, exec, file, life, faults>>

\* After unregister: a run of the app server that raised is run by exec again;
\* an exec that raised is passed on to the pipeline.
Leaves(c, raised) ==
  /\ failing' = [failing EXCEPT ![c] = FALSE]
  /\ IF mode[c] = "app-server" /\ (failing[c] \/ raised)
     THEN /\ Goes(c, "launch") /\ mode' = [mode EXCEPT ![c] = "exec"]
          /\ UNCHANGED result
     ELSE /\ Returns(c, IF failing[c] \/ raised THEN "raised" ELSE mode[c])
          /\ UNCHANGED mode

\* on_process_start: register, which keeps the records of the other candidates.
\* It is called once the app server has the prompt, and before exec gets it.
RegisterReads(c) ==
  /\ bot /\ pc[c] = "register" /\ Goes(c, "recording") /\ Reads(c)
  /\ UNCHANGED <<choice, mode, failing, result, served, exec, records, stale,
                 life, faults>>

\* An exec now gets its prompt; the turn of an app server has begun.
OnceRecorded(c) == IF mode[c] = "exec" THEN "prompt"
                   ELSE IF rollover THEN "steer" ELSE "collect"

\* Variant: register adds a record without taking away the one the candidate has.
RegisterWritesBeside(c) ==
  /\ bot /\ pc[c] = "recording"
  /\ Writes(c, copy[c] \union {[who |-> c, own |-> mode[c] = "exec"]})
  /\ Goes(c, OnceRecorded(c))
  /\ UNCHANGED <<choice, mode, failing, result, served, exec, life, faults>>

RegisterWrites(c) ==
  /\ bot /\ pc[c] = "recording"
  /\ Writes(c, {r \in copy[c] : r.who # c}
                \union {[who |-> c, own |-> mode[c] = "exec"]})
  /\ Goes(c, OnceRecorded(c))
  /\ UNCHANGED <<choice, mode, failing, result, served, exec, life, faults>>

\* A file truncated by another is no JSON: register raises.  The process it was
\* to record goes on, an app server at its turn, an exec without a prompt.
RegisterRaises(c) ==
  /\ bot /\ pc[c] = "register" /\ MayBeTorn(c)
  /\ IF mode[c] = "exec" THEN Returns(c, "raised") /\ UNCHANGED failing
     ELSE /\ Goes(c, "unregister") /\ failing' = [failing EXCEPT ![c] = TRUE]
          /\ UNCHANGED result
  /\ UNCHANGED <<choice, mode, served, exec, file, life, faults>>

\* Variant: unregister stands after the run and not in its finally.
UnregistersOnReturn(c) ==
  /\ bot /\ pc[c] = "unregister"
  /\ IF records = {} \/ failing[c] THEN Leaves(c, FALSE) /\ UNCHANGED copy
     ELSE Goes(c, "unrecording") /\ Reads(c) /\ UNCHANGED <<mode, failing, result>>
  /\ UNCHANGED <<choice, served, exec, records, stale, life, faults>>

\* on_process_exit: unregister, in the finally of both ways to run.
UnregisterReads(c) ==
  /\ bot /\ pc[c] = "unregister"
  /\ IF records = {} THEN Leaves(c, FALSE) /\ UNCHANGED copy
     ELSE Goes(c, "unrecording") /\ Reads(c) /\ UNCHANGED <<mode, failing, result>>
  /\ UNCHANGED <<choice, served, exec, records, stale, life, faults>>

\* Variant: unregister is called without the candidate and takes the file away.
UnregisterWritesAll(c) ==
  /\ bot /\ pc[c] = "unrecording"
  /\ Writes(c, {}) /\ Leaves(c, records = {})
  /\ UNCHANGED <<choice, served, exec, life, faults>>

\* The last record goes with the file; unlink raises if it is gone already.
UnregisterWrites(c) ==
  LET remaining == {r \in copy[c] : r.who # c}
  IN  /\ bot /\ pc[c] = "unrecording"
      /\ Writes(c, remaining)
      /\ Leaves(c, remaining = {} /\ records = {})
      /\ UNCHANGED <<choice, served, exec, life, faults>>

UnregisterRaises(c) ==
  /\ bot /\ pc[c] = "unregister" /\ MayBeTorn(c) /\ Leaves(c, TRUE)
  /\ UNCHANGED <<choice, served, exec, file, life, faults>>

-----------------------------------------------------------------------------
(* The processes.                                                          *)

\* turn/start, or a compact start, has reached the app server.
TurnBegins(c) ==
  /\ server[c] = "up" /\ turn[c] = "none"
  /\ pc[c] = "turn" \/ (pc[c] = "thread" /\ rollover)
  /\ turn' = [turn EXCEPT ![c] = "running"]
  /\ UNCHANGED <<choice, thread, server, heard, reader, exec, file, life, faults>>

TurnEnds(c) ==
  /\ server[c] = "up" /\ turn[c] = "running"
  /\ \/ turn' = [turn EXCEPT ![c] = "completed"] /\ UNCHANGED faults
     \/ /\ faults > 0 /\ faults' = faults - 1
        /\ turn' = [turn EXCEPT ![c] = "failed"]
  /\ UNCHANGED <<choice, thread, server, heard, reader, exec, file, life>>

\* _reader_loop, a task of the loop of the thread: it reads while the thread
\* waits, also what an app server that has ended had written.
Hears(c) ==
  /\ bot /\ pc[c] \in {"steer", "collect", "closing"} /\ reader[c]
  /\ turn[c] \in {"completed", "failed"} /\ heard[c] # turn[c]
  /\ heard' = [heard EXCEPT ![c] = turn[c]]
  /\ UNCHANGED <<choice, thread, server, turn, reader, exec, file, life, faults>>

\* A line over the limit of the stream ends _reader_loop.
ReaderBreaks(c) ==
  /\ bot /\ faults > 0 /\ faults' = faults - 1
  /\ pc[c] \in Asking \union {"collect"} /\ server[c] = "up" /\ reader[c]
  /\ reader' = [reader EXCEPT ![c] = FALSE]
  /\ UNCHANGED <<choice, thread, server, turn, heard, exec, file, life>>

\* The app server ends by itself.  If its thread is just writing a request, the
\* write raises; if the request is written, nobody ever answers it.
ServerDies(c) ==
  /\ bot /\ server[c] = "up" /\ pc[c] # "done"
  /\ faults > 0 /\ faults' = faults - 1
  /\ \/ /\ server' = [server EXCEPT ![c] = "gone"]
        /\ UNCHANGED <<pc, mode, failing, turn, heard, reader>>
     \/ pc[c] \in Asking /\ Raises(c, "gone")
  /\ UNCHANGED <<choice, result, exec, file, life>>

\* The turn is steered once it is registered, and its app server has ended.
SteerBreaks(c) ==
  /\ bot /\ pc[c] = "steer" /\ server[c] = "gone" /\ Raises(c, "gone")
  /\ UNCHANGED <<choice, result, exec, file, life, faults>>

\* An app server nobody drives any more: its transport is collected some time
\* after the run, and a dead bot leaves it at the end of its input.
ServerIsLeft(c) ==
  /\ server[c] = "up" /\ (~bot \/ restarted \/ pc[c] = "done")
  /\ server' = [server EXCEPT ![c] = "gone"]
  /\ UNCHANGED <<choice, thread, turn, heard, reader, exec, file, life, faults>>

ExecEnds(c) ==
  /\ exec[c] = "working" \/ (exec[c] = "started" /\ pc[c] \in {"prompt", "done"})
  /\ exec' = [exec EXCEPT ![c] = "gone"]
  /\ UNCHANGED <<choice, thread, served, file, life, faults>>

-----------------------------------------------------------------------------
(* /abort, the death of the bot, and the check after its restart.          *)

\* The threads of the bot end with it; a dead one's exec without a prompt too.
BotDies(signalled) ==
  /\ bot' = FALSE
  /\ pc' = [c \in Candidates |-> IF pc[c] = "done" THEN "done" ELSE "dead"]
  /\ failing' = [c \in Candidates |-> FALSE]
  /\ exec' = [c \in Candidates |->
                IF exec[c] = "started" \/ (c \in signalled /\ exec[c] = "working")
                THEN "gone" ELSE exec[c]]
  /\ copy' = [p \in Callers |-> {}]
  /\ abort' = "idle" /\ check' = "idle"
  /\ UNCHANGED <<choice, mode, turn, heard, reader, result, records, stale,
                 group, restarted, freed>>

Crash ==
  /\ bot /\ ~restarted /\ deaths > 0 /\ deaths' = deaths - 1
  /\ BotDies({}) /\ UNCHANGED <<server, faults>>

\* terminate, first half; with no record /abort answers that nothing runs.
AbortReads ==
  /\ bot /\ ~restarted /\ abort = "idle" /\ records # {}
  /\ abort' = "signalling" /\ Reads("abort")
  /\ UNCHANGED <<choice, thread, served, exec, records, stale, check, bot, group,
                 restarted, freed, deaths, faults>>

\* It signals the group of every record, removes the file, and /abort writes
\* Blocked if any of them could be signalled.
AbortSignals ==
  LET hit == {r.who : r \in {x \in copy["abort"] : x.own /\ Alive(x)}}
  IN  /\ bot /\ abort = "signalling" /\ \A r \in copy["abort"] : r.own
      /\ exec' = [c \in Candidates |-> IF c \in hit THEN "gone" ELSE exec[c]]
      /\ Writes("abort", {})
      /\ abort' = IF hit = {} THEN "idle" ELSE "blocked"
      /\ UNCHANGED <<choice, thread, served, check, bot, group, restarted, freed,
                     deaths, faults>>

\* The record of an app server has the bot's own group: the signal ends the bot
\* with its app servers, and what terminate had still to do is not done.
AbortKills ==
  /\ bot /\ abort = "signalling" /\ \E r \in copy["abort"] : ~r.own
  /\ \E signalled \in SUBSET {r.who : r \in {x \in copy["abort"] : x.own}} :
       BotDies(signalled)
  /\ server' = [c \in Candidates |->
                  IF server[c] = "up" THEN "gone" ELSE server[c]]
  /\ UNCHANGED <<deaths, faults>>

\* The bot comes up on the same machine, or in a new container, where nothing
\* of before runs and the groups are numbered from the start again.
Restart ==
  /\ ~bot /\ bot' = TRUE /\ restarted' = TRUE
  /\ \/ group' = "other" /\ UNCHANGED <<server, exec>>
     \/ /\ group' \in {"first", "other"}
        /\ server' = [c \in Candidates |->
                        IF server[c] = "up" THEN "gone" ELSE server[c]]
        /\ exec' = [c \in Candidates |->
                      IF exec[c] = "working" THEN "gone" ELSE exec[c]]
  /\ UNCHANGED <<choice, thread, turn, heard, reader, file, abort, check, freed,
                 deaths, faults>>

\* is_active, which the scheduler asks when it looks for stale issues and after
\* a restart: it drops dead records, and with the last of them the file.
CheckReads ==
  /\ bot /\ check = "idle" /\ ~freed /\ (records # {} \/ restarted)
  /\ check' = "testing" /\ Reads("check")
  /\ UNCHANGED <<choice, thread, served, exec, records, stale, abort, bot, group,
                 restarted, freed, deaths, faults>>

\* Variant: is_active answers FALSE as soon as one record is dead.
CheckEndsAtFirst ==
  LET active == IF \A r \in copy["check"] : Alive(r) THEN copy["check"] ELSE {}
  IN  /\ bot /\ check = "testing" /\ check' = "idle"
      /\ Writes("check", active)
      /\ freed' = (restarted /\ active = {})
      /\ UNCHANGED <<choice, thread, served, exec, abort, bot, group, restarted,
                     deaths, faults>>

\* Nobody at work: restore_pending_runs sends the issue In Progress to Rework.
CheckEnds ==
  LET active == {r \in copy["check"] : Alive(r)}
  IN  /\ bot /\ check = "testing" /\ check' = "idle"
      /\ IF active = copy["check"]
         THEN copy' = [copy EXCEPT !["check"] = {}] /\ UNCHANGED <<records, stale>>
         ELSE Writes("check", active)
      /\ freed' = (restarted /\ active = {})
      /\ UNCHANGED <<choice, thread, served, exec, abort, bot, group, restarted,
                     deaths, faults>>

-----------------------------------------------------------------------------
Init ==
  /\ appServer \in AppServers /\ rollover \in Rollovers
  /\ pc = [c \in Candidates |-> "ready"]
  /\ mode = [c \in Candidates |-> "none"]
  /\ failing = [c \in Candidates |-> FALSE]
  /\ result = [c \in Candidates |-> "none"]
  /\ server = [c \in Candidates |-> "none"]
  /\ turn = [c \in Candidates |-> "none"]
  /\ heard = [c \in Candidates |-> "none"]
  /\ reader = [c \in Candidates |-> FALSE]
  /\ exec = [c \in Candidates |-> "none"]
  /\ records = {} /\ copy = [p \in Callers |-> {}] /\ stale = FALSE
  /\ abort = "idle" /\ check = "idle"
  /\ bot = TRUE /\ group = "first" /\ restarted = FALSE /\ freed = FALSE
  /\ deaths = MaxDeaths /\ faults = MaxFaults

\* What the thread of a candidate does when nothing goes wrong.
Proceeds(c) ==
  \/ Call(c) \/ SnapshotRead(c) \/ Answered(c) \/ Collects(c) \/ Closes(c)
  \/ Launches(c) \/ Prompts(c) \/ Waits(c)
  \/ RegisterReads(c) \/ RegisterWrites(c) \/ UnregisterReads(c) \/ UnregisterWrites(c)

Works(c) == TurnBegins(c) \/ TurnEnds(c) \/ Hears(c) \/ ExecEnds(c)

Fails(c) ==
  \/ Refused(c) \/ RegisterRaises(c) \/ UnregisterRaises(c)
  \/ ReaderBreaks(c) \/ ServerDies(c) \/ SteerBreaks(c)

Check == CheckReads \/ CheckEnds

Next ==
  \/ \E c \in Candidates : Proceeds(c) \/ Works(c) \/ Fails(c) \/ ServerIsLeft(c)
  \/ Crash \/ AbortReads \/ AbortSignals \/ AbortKills \/ Restart \/ Check

Spec == Init /\ [][Next]_vars

\* A thread goes on unless it waits; the agents come to an end; what is left of
\* an app server is collected; the scheduler polls.  Nothing says that a process
\* fails, that anyone aborts, or that a bot is started again.
Fairness ==
  /\ \A c \in Candidates :
       WF_vars(Proceeds(c)) /\ WF_vars(Works(c)) /\ WF_vars(ServerIsLeft(c))
  /\ WF_vars(Check)

FairSpec == Spec /\ Fairness

-----------------------------------------------------------------------------
(* Properties.                                                             *)

\* The state is well formed, and no candidate has two records in the file: a
\* second would be signalled, or believed, after its process has ended.
TypeOK ==
  /\ appServer \in BOOLEAN /\ rollover \in BOOLEAN
  /\ pc \in [Candidates -> Asking \union
        {"ready", "register", "recording", "collect", "closing", "launch", "prompt",
         "wait", "unregister", "unrecording", "done", "dead"}]
  /\ mode \in [Candidates -> {"none", "app-server", "exec"}]
  /\ failing \in [Candidates -> BOOLEAN] /\ reader \in [Candidates -> BOOLEAN]
  /\ server \in [Candidates -> {"none", "up", "gone"}]
  /\ turn \in [Candidates -> {"none", "running", "completed", "failed"}]
  /\ heard \in [Candidates -> {"none", "completed", "failed"}]
  /\ exec \in [Candidates -> {"none", "started", "working", "gone"}]
  /\ result \in [Candidates -> {"none", "app-server", "exec", "raised"}]
  /\ records \subseteq Record /\ copy \in [Callers -> SUBSET Record]
  /\ \A r, s \in records : r.who = s.who => r = s
  /\ abort \in {"idle", "signalling", "blocked"} /\ check \in {"idle", "testing"}
  /\ {bot, restarted, freed, stale} \subseteq BOOLEAN
  /\ group \in {"first", "other"}
  /\ deaths \in 0..MaxDeaths /\ faults \in 0..MaxFaults

\* While its process is up and its thread drives it, a candidate is on file,
\* with the kind of group the process has - unless some call has overwritten
\* the file with a copy out of date.  What /abort can stop and is_active can see
\* depends on it, also when another candidate comes and goes.
Driven(c) ==
  \/ pc[c] \in {"steer", "collect"} /\ server[c] = "up"
  \/ pc[c] \in {"prompt", "wait"} /\ exec[c] \in {"started", "working"}

OnFileWhileDriven ==
  bot /\ ~stale =>
    \A c \in Candidates : Driven(c) =>
      [who |-> c, own |-> mode[c] = "exec"] \in records

\* When run returns, the pipeline lists, tests and commits what is in the copy.
\* By then the agent whose result it is has ended, and no exec has the prompt;
\* only an app server that raised may still be at its turn.
QuietAfterRun ==
  bot => \A c \in Candidates :
    /\ result[c] = "app-server" => server[c] = "gone" /\ exec[c] = "none"
    /\ result[c] \in {"exec", "raised"} => exec[c] # "working"

\* The return code of the app server is that of its turn: a completed turn is
\* counted, also if the process ends before the report of it has been read, and
\* nothing else is.
CompletionCounts ==
  \A c \in Candidates : result[c] = "app-server" =>
    (heard[c] = "completed" <=> turn[c] = "completed")

\* A restarted bot gives the issue to a new attempt only when no exec of the old
\* one works at it any more - unless the file was overwritten.  A bot may die
\* at any point of a run and leave the exec alive in its own session.
FreedIsQuiet ==
  freed /\ ~stale => \A c \in Candidates : exec[c] # "working"

\* A call of run returns or the bot dies, except in the three ways to wait for
\* ever: a request whose app server is gone or can no longer be heard, a turn
\* whose end can no longer be heard, and a turn that failed.
Stuck(c) ==
  \/ pc[c] \in Asking /\ (server[c] = "gone" \/ ~reader[c])
  \/ pc[c] = "collect" /\ server[c] = "up" /\ (turn[c] = "failed" \/ ~reader[c])

RunReturns ==
  \A c \in Candidates :
    (pc[c] # "ready") ~> (pc[c] \in {"done", "dead"} \/ Stuck(c))

\* A candidate whose call has returned does not stay on file, whichever way it
\* came to its end: is_active would say for ever that somebody works at the issue,
\* and the record of an app server would let the next /abort signal the bot.  Of
\* several candidates one may write another's record back (README.md).
RecordsGo ==
  \A c \in Candidates :
    (bot /\ pc[c] = "done") ~> (~bot \/ \A r \in records : r.who # c)

\* docs/ARCHITECTURE.md:171: abort stops the current attempt.  Spec does not have
\* this property: a process that is not yet on file is not signalled (README.md).
AbortStopsAttempt == abort = "blocked" => \A c \in Candidates : exec[c] # "working"

\* An issue that a dead bot left In Progress is freed in the end, unless there is
\* a record of an app server and the new bot has the process group of the old.
AbandonedIsFreed ==
  restarted ~> (freed \/ (group = "first" /\ \E r \in records : ~r.own))

=============================================================================
